---- MODULE Spec2Model ----
(***************************************************************************)
(* ExpensePro: the ledger service of src/app.py (Flask + SQLAlchemy on     *)
(* SQLite), its older variant src/backend/app.py and the date helper of    *)
(* src/streamlit_app/app.py.                                               *)
(*                                                                         *)
(* Values that arrive in a request (JSON body, query string, CSV cell):    *)
(*   - a text is a TLA+ string; Python's None is the string None and a key *)
(*     that is not in the request at all is the string Absent;             *)
(*   - a text that is read as a date is a record: Ymd(y, m, d) for a text  *)
(*     of the form Y-M-D (whatever the numbers), Raw(s) for any other text;*)
(*   - a text or JSON value that is read as a number is Num(v) when it is  *)
(*     a numeric literal and Raw(s) otherwise.                             *)
(* A stored date is its proleptic Gregorian ordinal (date.toordinal()), a  *)
(* stored amount is an integer (amounts are restricted to whole numbers).  *)
(* The created_at columns are never read by any handler and are left out.  *)
(***************************************************************************)
EXTENDS Integers, Sequences, FiniteSets, TLC

VARIABLES
    categories,   \* table category: set of [id, user_id, name, type]
    expenses,     \* table expense: set of [id, user_id, category_id, amount, date, merchant, ...]
    resp,         \* the request just served and its response
    clock,        \* today's date in the server's timezone, as an ordinal
    inflight,     \* the uploads being served side by side, one per worker
    users         \* table user: set of [id, username, email]

vars == <<categories, expenses, resp, clock, inflight, users>>

-----------------------------------------------------------------------------
(* Request values *)

None == "<None>"
Absent == "<absent>"

NoValue(k) == [k |-> k]
Ymd(y, m, d) == [k |-> "ymd", y |-> y, m |-> m, d |-> d]
Raw(s) == [k |-> "raw", s |-> s]
Num(v) == [k |-> "num", v |-> v]

\* a missing key and a JSON null / short CSV row, for the date and amount cells
AbsentV == NoValue("absent")
NoneV == NoValue("none")

-----------------------------------------------------------------------------
(* Rows, requests and responses *)

\* the rows of the two tables
Category(id, user_id, name, type) ==
    [id |-> id, user_id |-> user_id, name |-> name, type |-> type]

Expense(id, user_id, category_id, amount, date, merchant, account, project, tags, note) ==
    [id |-> id, user_id |-> user_id, category_id |-> category_id, amount |-> amount,
     date |-> date, merchant |-> merchant, account |-> account, project |-> project,
     tags |-> tags, note |-> note]

\* a request that was served and the response to it
Response(op, uid, req, status, msg, body) ==
    [op |-> op, uid |-> uid, req |-> req, status |-> status, msg |-> msg, body |-> body]

\* a row of table user; password_hash is read by login alone and is left out
User(id, username, email) ==
    [id |-> id, username |-> username, email |-> email]

\* JSON body of POST /api/register
RegisterData(username, password, email) ==
    [username |-> username, email |-> email, password |-> password]

\* JSON bodies of POST and PATCH /api/categories
CategoryData(name, type) == [name |-> name, type |-> type]

\* JSON bodies of POST and PATCH /api/expenses
ExpenseData(category_id, amount, date, merchant, account, project, tags, note) ==
    [category_id |-> category_id, amount |-> amount, date |-> date,
     merchant |-> merchant, account |-> account, project |-> project,
     tags |-> tags, note |-> note]

\* PATCH and DELETE address a row by the id in the URL
EditRequest(id, data) == [id |-> id, data |-> data]

\* the query strings of /api/analysis, /api/summary, /api/expenses, /api/export
AnalysisArgs(group_by, period, from, to, only_expense) ==
    [group_by |-> group_by, period |-> period, from |-> from, to |-> to,
     only_expense |-> only_expense]
SummaryArgs(period, from, to) == [period |-> period, from |-> from, to |-> to]
RangeArgs(from, to) == [from |-> from, to |-> to]

\* one line of an imported CSV file, and the uploaded file
Row(category, type, amount, date, merchant, account, project, tags, note) ==
    [type |-> type, amount |-> amount, date |-> date,
     merchant |-> merchant, account |-> account, project |-> project,
     tags |-> tags, note |-> note, category |-> category]
File(ext, rows) == [ext |-> ext, rows |-> rows]

\* what the summary and the dashboard's date helper were asked, with the date
\* the clock gave
SummaryRequest(args, today) == [args |-> args, today |-> today]
DateRangeRequest(period, year, month, week) ==
    [period |-> period, year |-> year, month |-> month, week |-> week]

\* what the import leaves committed, and its response
ImportResult(cats, exps, status, msg) ==
    [status |-> status, msg |-> msg, cats |-> cats, exps |-> exps]

\* an upload a worker is serving: where the handler stands (pc), the file and
\* the rows still to be read, the id of the row's category, the Expense
\* objects added to the session and not yet flushed, in the order they were
\* added, the rows flushed and not yet committed, and the status returned
Upload(pc, uid, file, rows, cat, pending, flushed, status) ==
    [uid |-> uid, status |-> status, rows |-> rows, pc |-> pc, file |-> file,
     cat |-> cat, pending |-> pending, flushed |-> flushed]

-----------------------------------------------------------------------------
(* Calendar: datetime.date, timedelta and SQLite's strftime *)

NumYears == 3
Years == 2018 .. (2018 + NumYears - 1)

IsLeap(y) == (y % 4 = 0) /\ ((y % 100 # 0) \/ (y % 400 = 0))

DaysInMonth(y, m) ==
    IF m = 2 THEN (IF IsLeap(y) THEN 29 ELSE 28)
    ELSE IF m \in {4, 6, 9, 11} THEN 30 ELSE 31

DaysBeforeYear(y) ==
    (y - 1) * 365 + ((y - 1) \div 4) - ((y - 1) \div 100) + ((y - 1) \div 400)

DaysBeforeMonth(y, m) ==
    <<0, 31, 59, 90, 120, 151, 181, 212, 243, 273, 304, 334>>[m]
        + (IF m > 2 /\ IsLeap(y) THEN 1 ELSE 0)

\* date(y, m, d).toordinal()
Ord(y, m, d) == DaysBeforeYear(y) + DaysBeforeMonth(y, m) + d

\* date.fromordinal(n).year / .month / .day
YearOf(n) ==
    CHOOSE y \in (2018 - 1) .. (2018 + NumYears + 1) :
        DaysBeforeYear(y) < n /\ n <= DaysBeforeYear(y + 1)
MonthIn(y, r) ==
    CHOOSE m \in 1 .. 12 :
        DaysBeforeMonth(y, m) < r /\ r <= DaysBeforeMonth(y, m) + DaysInMonth(y, m)
MonthOf(n) == LET y == YearOf(n) IN MonthIn(y, n - DaysBeforeYear(y))
DayOf(n) ==
    LET y == YearOf(n)
        r == n - DaysBeforeYear(y)
    IN  r - DaysBeforeMonth(y, MonthIn(y, r))

\* date.weekday(): Monday is 0
Weekday(n) == (n + 6) % 7

\* date.replace(day=.., month=..)
ReplaceDay(n, d) == Ord(YearOf(n), MonthOf(n), d)
ReplaceMonthDay(n, m, d) == Ord(YearOf(n), m, d)

\* date.isoformat(): the text Y-M-D
IsoFormat(n) ==
    LET y == YearOf(n)
        r == n - DaysBeforeYear(y)
        m == MonthIn(y, r)
    IN  Ymd(y, m, r - DaysBeforeMonth(y, m))

\* SQLite strftime('%W', d): week of the year 00..53, weeks start on Monday,
\* the days before the year's first Monday are week 0
StrftimeW(n) ==
    LET yday == n - DaysBeforeYear(YearOf(n)) - 1
    IN  (yday + 7 - Weekday(n)) \div 7

\* extract('year', d), extract('month', d)
ExtractYear(n) == YearOf(n)
ExtractMonth(n) == MonthOf(n)

-----------------------------------------------------------------------------
(* Helpers of src/app.py *)

\* validate_date returns None for a text strptime rejects; a date is never 0
NoDate == 0

validate_date(date_str) ==
    IF date_str.k = "ymd"
       /\ date_str.y \in 1 .. 9999
       /\ date_str.m \in 1 .. 12
       /\ date_str.d >= 1
       /\ date_str.d <= DaysInMonth(date_str.y, date_str.m)
    THEN Ord(date_str.y, date_str.m, date_str.d)
    ELSE NoDate

\* `field not in data or data[field] is None`; name, category and the fields
\* of a registration are texts, the other required fields are read as a
\* number or a date
IsMissing(data, field) ==
    IF field \in {"name", "category", "username", "password", "email"}
    THEN data[field] \in {Absent, None}
    ELSE data[field] \in {AbsentV, NoneV}

\* the first required field that is missing, "" when there is none

RECURSIVE validate_required_fields(_, _)
validate_required_fields(data, fields) ==
    IF fields = <<>> THEN ""
    ELSE IF IsMissing(data, Head(fields)) THEN Head(fields)
    ELSE validate_required_fields(data, Tail(fields))

\* dict.get(key) and dict.get(key, default) on a request
Get(data, f) == IF data[f] = Absent THEN None ELSE data[f]
GetOr(data, f, default) == IF data[f] = Absent THEN default ELSE data[f]

\* float(x) succeeds exactly on numeric values
FloatOk(x) == x.k = "num"
Float(x) == x.v

-----------------------------------------------------------------------------
(* The store: SQLite tables behind SQLAlchemy *)

Users == {1, 2}

MaxCatId == 2
MaxExpId == 2

Max(S) == CHOOSE x \in S : \A y \in S : y <= x

\* INTEGER PRIMARY KEY without AUTOINCREMENT: the new rowid is the largest
\* rowid of the table + 1, so the id of a deleted last row is given out again
NextId(table) == IF table = {} THEN 1 ELSE Max({r.id : r \in table}) + 1

\* CategoryOf without the user_id filter
CategoryOfAnyUser(cats, cid, uid) == {c \in cats : c.id = cid}
\* Category.query.filter_by(id=cid, user_id=uid).first()
CategoryOf(cats, cid, uid) == {c \in cats : c.id = cid /\ c.user_id = uid}
\* Category.query.get(cid)
CategoryById(cats, cid) == {c \in cats : c.id = cid}
\* ExpenseOf without the user_id filter
ExpenseOfAnyUser(exps, eid, uid) == {e \in exps : e.id = eid}
\* Expense.query.filter_by(id=eid, user_id=uid).first()
ExpenseOf(exps, eid, uid) == {e \in exps : e.id = eid /\ e.user_id = uid}

NoBody == <<>>

\* `except Exception` of every handler; abort(404) raised inside the try
\* block is an Exception too and ends here
InternalError(op, uid, req) == Response(op, uid, req, 500, "Internal server error", NoBody)

\* the tenants that send requests, registered earlier; a tenant may delete
\* every category it was given
Registered == {User(1, "ann", "ann@x"), User(2, "bob", "bob@x")}

\* no request is being served
NoResponse == Response("none", 0, NoBody, 0, "", NoBody)
Idle == resp = NoResponse

\* the workers that serve uploads side by side, and a worker without one
Workers == {1, 2}
NoUpload == Upload("idle", 0, NoBody, <<>>, 0, <<>>, {}, 0)

\* the response is sent and the server is ready for the next request; a
\* handler that has not returned yet has no status
respond ==
    /\ resp.status # 0
    /\ resp' = NoResponse
    /\ UNCHANGED <<categories, expenses, clock, inflight, users>>

-----------------------------------------------------------------------------
(* /api/categories *)

\* POST /api/categories
createCategory(uid, data) ==
    /\ Idle
    /\ LET missing == validate_required_fields(data, <<"name">>)
           cat == Category(NextId(categories), uid, data.name, GetOr(data, "type", "expense"))
       IN  IF missing # ""
           THEN /\ resp' = Response("createCategory", uid, data, 400, "Missing required field", NoBody)
                /\ UNCHANGED <<categories, expenses, clock, inflight, users>>
           ELSE /\ cat.id <= MaxCatId
                /\ categories' = categories \cup {cat}
                /\ resp' = Response("createCategory", uid, data, 201, "Category added", cat.id)
                /\ UNCHANGED <<expenses, clock, inflight, users>>

\* listCategories that first gives a tenant without categories a default one
listCategoriesSeeding(uid) ==
    /\ Idle
    /\ LET seeded == IF \E c \in categories : c.user_id = uid
                     THEN categories
                     ELSE categories \cup {Category(NextId(categories), uid, "Other", "expense")}
       IN  /\ categories' = seeded
           /\ resp' = Response("listCategories", uid, NoBody, 200, "",
                               {c \in seeded : c.user_id = uid})
    /\ UNCHANGED <<expenses, clock, inflight, users>>

\* GET /api/categories
listCategories(uid) ==
    /\ Idle
    /\ resp' = Response("listCategories", uid, NoBody, 200, "",
                        {c \in categories : c.user_id = uid})
    /\ UNCHANGED <<categories, expenses, clock, inflight, users>>

PatchCategory(cat, data) ==
    [cat EXCEPT !.name = IF data.name # Absent THEN data.name ELSE @,
                !.type = IF data.type # Absent /\ data.type \in {"expense", "income"}
                         THEN data.type ELSE @]

\* PATCH /api/categories/<cid>
updateCategory(uid, cid, data) ==
    /\ Idle
    /\ LET found == CategoryOf(categories, cid, uid)
           req == EditRequest(cid, data)
       IN  IF found = {}
           THEN /\ resp' = InternalError("updateCategory", uid, req)
                /\ UNCHANGED <<categories, expenses, clock, inflight, users>>
           ELSE LET cat == CHOOSE c \in found : TRUE
                IN  /\ categories' = (categories \ {cat}) \cup {PatchCategory(cat, data)}
                    /\ resp' = Response("updateCategory", uid, req, 200, "Category updated", NoBody)
                    /\ UNCHANGED <<expenses, clock, inflight, users>>

\* deleteCategory with a cascade to the transactions of the category
deleteCategoryCascading(uid, cid) ==
    /\ Idle
    /\ LET found == CategoryOf(categories, cid, uid)
           req == EditRequest(cid, NoBody)
       IN  IF found = {}
           THEN /\ resp' = InternalError("deleteCategory", uid, req)
                /\ UNCHANGED <<categories, expenses, clock, inflight, users>>
           ELSE /\ categories' = categories \ found
                /\ expenses' = {e \in expenses : e.category_id # cid}
                /\ resp' = Response("deleteCategory", uid, req, 200, "Category deleted", NoBody)
                /\ UNCHANGED <<clock, inflight, users>>

\* DELETE /api/categories/<cid>; SQLite does not enforce the foreign key of
\* expense.category_id and no relationship cascades
deleteCategory(uid, cid) ==
    /\ Idle
    /\ LET found == CategoryOf(categories, cid, uid)
           req == EditRequest(cid, NoBody)
       IN  IF found = {}
           THEN /\ resp' = InternalError("deleteCategory", uid, req)
                /\ UNCHANGED <<categories, expenses, clock, inflight, users>>
           ELSE /\ categories' = categories \ found
                /\ resp' = Response("deleteCategory", uid, req, 200, "Category deleted", NoBody)
                /\ UNCHANGED <<expenses, clock, inflight, users>>

-----------------------------------------------------------------------------
(* /api/expenses *)

\* POST /api/expenses
createTransaction(uid, data) ==
    /\ Idle
    /\ LET missing == validate_required_fields(data, <<"category_id", "amount", "date">>)
           date_obj == validate_date(data.date)
           exp == Expense(NextId(expenses), uid, data.category_id.v, Float(data.amount),
                          date_obj, Get(data, "merchant"), Get(data, "account"),
                          Get(data, "project"), Get(data, "tags"), Get(data, "note"))
           fail(r) == /\ resp' = r
                      /\ UNCHANGED <<categories, expenses, clock, inflight, users>>
       IN  IF missing # ""
           THEN fail(Response("createTransaction", uid, data, 400, "Missing required field", NoBody))
           ELSE IF date_obj = NoDate
           THEN fail(Response("createTransaction", uid, data, 400, "Invalid date format", NoBody))
           ELSE IF CategoryOf(categories, data.category_id.v, uid) = {}
           THEN fail(Response("createTransaction", uid, data, 400, "Invalid category", NoBody))
           ELSE IF ~FloatOk(data.amount)
           THEN fail(InternalError("createTransaction", uid, data))
           ELSE /\ exp.id <= MaxExpId
                /\ expenses' = expenses \cup {exp}
                /\ resp' = Response("createTransaction", uid, data, 201, "Expense added", exp.id)
                /\ UNCHANGED <<categories, clock, inflight, users>>

\* PatchExpense as a replacement of the row: a text column that the patch
\* leaves out is cleared
PatchExpenseReplacing(exp, data, date_obj) ==
    [exp EXCEPT !.category_id = IF data.category_id # AbsentV THEN data.category_id.v ELSE @,
                !.amount = IF data.amount # AbsentV THEN data.amount.v ELSE @,
                !.merchant = Get(data, "merchant"),
                !.account = Get(data, "account"),
                !.project = Get(data, "project"),
                !.tags = Get(data, "tags"),
                !.note = Get(data, "note"),
                !.date = IF data.date # AbsentV THEN date_obj ELSE @]

\* the setattr loop of PATCH, then the date
PatchExpense(exp, data, date_obj) ==
    [exp EXCEPT !.category_id = IF data.category_id # AbsentV THEN data.category_id.v ELSE @,
                !.amount = IF data.amount # AbsentV THEN data.amount.v ELSE @,
                !.merchant = IF data.merchant # Absent THEN data.merchant ELSE @,
                !.account = IF data.account # Absent THEN data.account ELSE @,
                !.project = IF data.project # Absent THEN data.project ELSE @,
                !.tags = IF data.tags # Absent THEN data.tags ELSE @,
                !.note = IF data.note # Absent THEN data.note ELSE @,
                !.date = IF data.date # AbsentV THEN date_obj ELSE @]

\* PATCH /api/expenses/<eid>; the early return on a bad date leaves without a
\* commit and the request's session is discarded.  strptime raises TypeError
\* on a date that is null, which validate_date does not catch, and the commit
\* raises IntegrityError on a null in category_id or amount: both end in the
\* except branch
updateTransaction(uid, eid, data) ==
    /\ Idle
    /\ LET found == ExpenseOf(expenses, eid, uid)
           req == EditRequest(eid, data)
           date_obj == validate_date(data.date)
       IN  IF found = {} \/ data.date = NoneV
           THEN /\ resp' = InternalError("updateTransaction", uid, req)
                /\ UNCHANGED <<categories, expenses, clock, inflight, users>>
           ELSE IF data.date # AbsentV /\ date_obj = NoDate
           THEN /\ resp' = Response("updateTransaction", uid, req, 400, "Invalid date format", NoBody)
                /\ UNCHANGED <<categories, expenses, clock, inflight, users>>
           ELSE IF data.category_id = NoneV \/ data.amount = NoneV
           THEN /\ resp' = InternalError("updateTransaction", uid, req)
                /\ UNCHANGED <<categories, expenses, clock, inflight, users>>
           ELSE LET exp == CHOOSE e \in found : TRUE
                IN  /\ expenses' = (expenses \ {exp}) \cup {PatchExpense(exp, data, date_obj)}
                    /\ resp' = Response("updateTransaction", uid, req, 200, "Expense updated", NoBody)
                    /\ UNCHANGED <<categories, clock, inflight, users>>

\* DELETE /api/expenses/<eid>
deleteTransaction(uid, eid) ==
    /\ Idle
    /\ LET found == ExpenseOf(expenses, eid, uid)
           req == EditRequest(eid, NoBody)
       IN  IF found = {}
           THEN /\ resp' = InternalError("deleteTransaction", uid, req)
                /\ UNCHANGED <<categories, expenses, clock, inflight, users>>
           ELSE /\ expenses' = expenses \ found
                /\ resp' = Response("deleteTransaction", uid, req, 200, "Expense deleted", NoBody)
                /\ UNCHANGED <<categories, clock, inflight, users>>

-----------------------------------------------------------------------------
(* Queries shared by the read handlers *)

RECURSIVE SumAmount(_)
SumAmount(exps) ==
    IF exps = {} THEN 0
    ELSE LET e == CHOOSE x \in exps : TRUE
         IN  e.amount + SumAmount(exps \ {e})

\* query(Expense).join(Category): the join is on expense.category_id =
\* category.id alone; the rows are (expense, category) pairs
JoinCategory(exps, cats) ==
    {p \in exps \X cats : p[1].category_id = p[2].id}

\* db.func.sum(Expense.amount) over joined rows
RECURSIVE SumJoined(_)
SumJoined(rows) ==
    IF rows = {} THEN 0
    ELSE LET p == CHOOSE x \in rows : TRUE
         IN  p[1].amount + SumJoined(rows \ {p})

\* Truthy for a handler that never takes the range of the request
NeverTruthy(v) == FALSE
\* a query-string value is used when it is present and not empty
Truthy(v) == v \notin {AbsentV, Raw("")}

Periods == {"daily", "weekly", "monthly", "yearly"}

-----------------------------------------------------------------------------
(* /api/summary *)

\* DefaultWindow with the month taken to end 30 days after its first day
DefaultWindowThirtyDays(period, today) ==
    IF period = "daily" THEN <<today, today>>
    ELSE IF period = "weekly"
    THEN <<today - Weekday(today), today - Weekday(today) + 6>>
    ELSE IF period = "monthly"
    THEN <<ReplaceDay(today, 1), ReplaceDay(today, 1) + 30>>
    ELSE <<ReplaceMonthDay(today, 1, 1), ReplaceMonthDay(today, 12, 31)>>

\* the else branch of summary: the window of `period` around today
DefaultWindow(period, today) ==
    IF period = "daily" THEN <<today, today>>
    ELSE IF period = "weekly"
    THEN LET start_date == today - Weekday(today)
         IN  <<start_date, start_date + 6>>
    ELSE IF period = "monthly"
    THEN LET start_date == ReplaceDay(today, 1)
         IN  <<start_date, ReplaceDay(start_date + 31, 1) - 1>>
    ELSE <<ReplaceMonthDay(today, 1, 1), ReplaceMonthDay(today, 12, 31)>>

\* SummaryTotal without the upper bound on the date (as in the query of
\* src/backend/app.py, which sums from the month's first day on)
SummaryTotalFromStart(uid, kind, start_date, end_date) ==
    SumJoined({p \in JoinCategory(expenses, categories) :
                  /\ p[1].user_id = uid
                  /\ p[2].type = kind
                  /\ p[1].date >= start_date})

\* SummaryTotal without the filter on the category's type
SummaryTotalAnyKind(uid, kind, start_date, end_date) ==
    SumJoined({p \in JoinCategory(expenses, categories) :
                  /\ p[1].user_id = uid
                  /\ p[1].date >= start_date
                  /\ p[1].date <= end_date})

\* the two sum queries of summary
SummaryTotal(uid, kind, start_date, end_date) ==
    SumJoined({p \in JoinCategory(expenses, categories) :
                  /\ p[1].user_id = uid
                  /\ p[2].type = kind
                  /\ p[1].date >= start_date
                  /\ p[1].date <= end_date})

SummaryBody(uid, period, start_date, end_date) ==
    LET total_income == SummaryTotal(uid, "income", start_date, end_date)
        total_expense == SummaryTotal(uid, "expense", start_date, end_date)
    IN  [period |-> period,
         total_income |-> total_income,
         total_expense |-> total_expense,
         balance |-> total_income - total_expense,
         from_date |-> IsoFormat(start_date),
         to_date |-> IsoFormat(end_date),
         currency |-> "THB"]

\* SummaryResponse that takes the range of the request when either bound is
\* given
SummaryResponseEitherBound(uid, args, today) ==
    LET period == GetOr(args, "period", "weekly")
        req == SummaryRequest(args, today)
        explicit == Truthy(args.from) \/ Truthy(args.to)
        start_date == validate_date(args.from)
        end_date == validate_date(args.to)
        window == DefaultWindow(period, today)
    IN  IF period \notin Periods
        THEN Response("getSummary", uid, req, 400, "Invalid period parameter", NoBody)
        ELSE IF explicit /\ (start_date = NoDate \/ end_date = NoDate)
        THEN Response("getSummary", uid, req, 400, "Invalid date format", NoBody)
        ELSE IF explicit /\ start_date > end_date
        THEN Response("getSummary", uid, req, 400, "Start date must be before end date", NoBody)
        ELSE IF explicit
        THEN Response("getSummary", uid, req, 200, "", SummaryBody(uid, period, start_date, end_date))
        ELSE Response("getSummary", uid, req, 200, "", SummaryBody(uid, period, window[1], window[2]))

SummaryResponse(uid, args, today) ==
    LET period == GetOr(args, "period", "weekly")
        req == SummaryRequest(args, today)
        explicit == Truthy(args.from) /\ Truthy(args.to)
        start_date == validate_date(args.from)
        end_date == validate_date(args.to)
        window == DefaultWindow(period, today)
    IN  IF period \notin Periods
        THEN Response("getSummary", uid, req, 400, "Invalid period parameter", NoBody)
        ELSE IF explicit /\ (start_date = NoDate \/ end_date = NoDate)
        THEN Response("getSummary", uid, req, 400, "Invalid date format", NoBody)
        ELSE IF explicit /\ start_date > end_date
        THEN Response("getSummary", uid, req, 400, "Start date must be before end date", NoBody)
        ELSE IF explicit
        THEN Response("getSummary", uid, req, 200, "", SummaryBody(uid, period, start_date, end_date))
        ELSE Response("getSummary", uid, req, 200, "", SummaryBody(uid, period, window[1], window[2]))

\* GET /api/summary
getSummary(uid, args) ==
    /\ Idle
    /\ resp' = SummaryResponse(uid, args, clock)
    /\ UNCHANGED <<categories, expenses, clock, inflight, users>>

-----------------------------------------------------------------------------
(* src/streamlit_app/app.py: get_date_range; year, month, week = 0 is None *)

get_date_range(period, year, month, week, today) ==
    LET range ==
            IF period = "weekly"
            THEN IF year = 0 \/ week = 0
                 THEN <<today - Weekday(today), today - Weekday(today) + 6>>
                 ELSE LET first_day_of_year == Ord(year, 1, 1)
                          days_to_monday == (7 - Weekday(first_day_of_year)) % 7
                          start == first_day_of_year + days_to_monday + (week - 1) * 7
                          end == start + 6
                      IN  <<start, IF YearOf(end) > year THEN Ord(year, 12, 31) ELSE end>>
            ELSE IF period = "monthly"
            THEN LET start == IF year = 0 \/ month = 0
                              THEN ReplaceDay(today, 1) ELSE Ord(year, month, 1)
                 IN  <<start, ReplaceDay(start + 31, 1) - 1>>
            ELSE LET y == IF year # 0 THEN year ELSE YearOf(today)
                 IN  <<Ord(y, 1, 1), Ord(y, 12, 31)>>
    IN  <<IsoFormat(range[1]), IsoFormat(range[2])>>

-----------------------------------------------------------------------------
(* Row order: a query without ORDER BY yields its rows in any order *)

\* every sequence that lists each element of S exactly once
Orderings(S) ==
    {f \in [1 .. Cardinality(S) -> S] : \A i, j \in 1 .. Cardinality(S) : f[i] = f[j] => i = j}

\* lexicographic <= on tuples of integers of the same length
RECURSIVE TupleLeq(_, _)
TupleLeq(a, b) ==
    IF a = <<>> THEN TRUE
    ELSE IF Head(a) # Head(b) THEN Head(a) < Head(b)
    ELSE TupleLeq(Tail(a), Tail(b))

\* list.sort(key=...) is stable: the outcome of sorting rows that arrive in
\* any order is any ordering of them that is non-decreasing
\* in the key; key is the function from the rows to their sort keys
StableSorted(S, key) ==
    {f \in Orderings(S) : \A i \in 1 .. Cardinality(S) - 1 : TupleLeq(key[f[i]], key[f[i + 1]])}

-----------------------------------------------------------------------------
(* /api/analysis *)

GroupBys == {"category_id", "merchant", "account", "project"}

\* the GROUP BY columns of each period, without the group column
Bucket(period, d) ==
    IF period = "daily" THEN <<d>>
    ELSE IF period = "monthly" THEN <<ExtractYear(d), ExtractMonth(d)>>
    ELSE IF period = "weekly" THEN <<ExtractYear(d), StrftimeW(d)>>
    ELSE <<ExtractYear(d)>>

\* the filtered join of analysis
AnalysisRows(uid, args) ==
    {p \in JoinCategory(expenses, categories) :
        /\ p[1].user_id = uid
        /\ (args.only_expense = "1" => p[2].type = "expense")
        /\ (Truthy(args.from) => p[1].date >= validate_date(args.from))
        /\ (Truthy(args.to) => p[1].date <= validate_date(args.to))}

\* one response record of a group: result_dict
ResultDict(period, bucket, group, total) ==
    IF period = "daily"
    THEN [date |-> IsoFormat(bucket[1]), group |-> group, total |-> total]
    ELSE IF period = "monthly"
    THEN [year |-> bucket[1], month |-> bucket[2], group |-> group, total |-> total]
    ELSE IF period = "weekly"
    THEN [year |-> bucket[1], week |-> bucket[2], group |-> group, total |-> total]
    ELSE [year |-> bucket[1], group |-> group, total |-> total]

\* GROUP BY bucket, group with sum(amount): the response records, unordered
AnalysisRecords(uid, args) ==
    LET period == GetOr(args, "period", "monthly")
        group_by == GetOr(args, "group_by", "category_id")
        rows == AnalysisRows(uid, args)
        keyOf(p) == <<Bucket(period, p[1].date), p[1][group_by]>>
    IN  {ResultDict(period, k[1], k[2], SumJoined({p \in rows : keyOf(p) = k})) :
            k \in {keyOf(p) : p \in rows}}

\* the key of response.sort: (year, month, week, date) with 0 and '' for a
\* missing field; ISO date texts compare as their dates do
SortKey(x) ==
    <<IF "year" \in DOMAIN x THEN x.year ELSE 0,
      IF "month" \in DOMAIN x THEN x.month ELSE 0,
      IF "week" \in DOMAIN x THEN x.week ELSE 0,
      IF "date" \in DOMAIN x THEN validate_date(x.date) ELSE 0>>

AnalysisError(uid, args) ==
    IF GetOr(args, "group_by", "category_id") \notin GroupBys
    THEN "Invalid group_by parameter"
    ELSE IF GetOr(args, "period", "monthly") \notin Periods
    THEN "Invalid period parameter"
    ELSE IF Truthy(args.from) /\ validate_date(args.from) = NoDate
    THEN "Invalid from date format"
    ELSE IF Truthy(args.to) /\ validate_date(args.to) = NoDate
    THEN "Invalid to date format"
    ELSE ""

\* query.all() followed by response.sort: every sequence the handler can
\* return for one request on one store
AnalysisBodies(uid, args) ==
    StableSorted(AnalysisRecords(uid, args),
                 [x \in AnalysisRecords(uid, args) |-> SortKey(x)])

\* GET /api/analysis
getAnalysis(uid, args) ==
    /\ Idle
    /\ IF AnalysisError(uid, args) # ""
       THEN resp' = Response("getAnalysis", uid, args, 400, AnalysisError(uid, args), NoBody)
       ELSE \E body \in AnalysisBodies(uid, args) :
                resp' = Response("getAnalysis", uid, args, 200, "", body)
    /\ UNCHANGED <<categories, expenses, clock, inflight, users>>

-----------------------------------------------------------------------------
(* GET /api/expenses and /api/export *)

\* the from / to filters of both handlers: a key that is present is parsed
RangeError(args) ==
    IF args.from # AbsentV /\ validate_date(args.from) = NoDate
    THEN "Invalid from date format"
    ELSE IF args.to # AbsentV /\ validate_date(args.to) = NoDate
    THEN "Invalid to date format"
    ELSE ""

\* ExpensesInRange as an inner join with the categories: a transaction whose
\* category row is gone is not selected
ExpensesInRangeJoined(uid, args) ==
    {e \in expenses :
        /\ e.user_id = uid
        /\ CategoryById(categories, e.category_id) # {}
        /\ (args.from # AbsentV => e.date >= validate_date(args.from))
        /\ (args.to # AbsentV => e.date <= validate_date(args.to))}

\* ExpensesInRange with the bounds themselves left out of the range
ExpensesInRangeExclusive(uid, args) ==
    {e \in expenses :
        /\ e.user_id = uid
        /\ (args.from # AbsentV => e.date > validate_date(args.from))
        /\ (args.to # AbsentV => e.date < validate_date(args.to))}

\* Expense.query.filter_by(user_id=uid) narrowed by the from / to filters
ExpensesInRange(uid, args) ==
    {e \in expenses :
        /\ e.user_id = uid
        /\ (args.from # AbsentV => e.date >= validate_date(args.from))
        /\ (args.to # AbsentV => e.date <= validate_date(args.to))}

\* order_by(Expense.date.desc())
DateDescKey(e) == <<0 - e.date>>

\* GET /api/expenses
listTransactions(uid, args) ==
    /\ Idle
    /\ IF RangeError(args) # ""
       THEN resp' = Response("listTransactions", uid, args, 400, RangeError(args), NoBody)
       ELSE \E body \in StableSorted(ExpensesInRange(uid, args),
                                         [e \in ExpensesInRange(uid, args) |-> DateDescKey(e)]) :
                resp' = Response("listTransactions", uid, args, 200, "", body)
    /\ UNCHANGED <<categories, expenses, clock, inflight, users>>

\* OrEmpty without the fallback: None is written as it is
OrNothing(x) == x

\* x or ""
OrEmpty(x) == IF x = None THEN "" ELSE x

ExportHeader ==
    <<"date", "amount", "category", "merchant", "account", "project", "tags", "note">>

\* one line of the export; Category.query.get looks the category up by id alone
ExportRow(e) ==
    LET cat == CategoryById(categories, e.category_id)
    IN  [amount |-> Num(e.amount),
         date |-> IsoFormat(e.date),
         merchant |-> OrEmpty(e.merchant),
         account |-> OrEmpty(e.account),
         project |-> OrEmpty(e.project),
         tags |-> OrEmpty(e.tags),
         note |-> OrEmpty(e.note),
         category |-> IF cat = {} THEN "Unknown" ELSE (CHOOSE c \in cat : TRUE).name]

\* GET /api/export: the header, then query.all() in the order the store yields
exportRows(uid, args) ==
    /\ Idle
    /\ IF RangeError(args) # ""
       THEN resp' = Response("exportRows", uid, args, 400, RangeError(args), NoBody)
       ELSE \E order \in Orderings(ExpensesInRange(uid, args)) :
                resp' = Response("exportRows", uid, args, 200, "",
                                 [rows |-> [i \in DOMAIN order |-> ExportRow(order[i])],
                                  header |-> ExportHeader])
    /\ UNCHANGED <<categories, expenses, clock, inflight, users>>

-----------------------------------------------------------------------------
(* POST /api/import *)

\* FirstByName without the user_id filter
FirstByNameAnyUser(cats, uid, name) ==
    LET found == {c \in cats : c.name = name}
    IN  IF found = {} THEN {}
        ELSE {CHOOSE c \in found : \A o \in found : c.id <= o.id}

\* Category.query.filter_by(user_id=uid, name=name).first(): the scan of the
\* table is in rowid order, so the first match is the one with the lowest id
FirstByName(cats, uid, name) ==
    LET found == {c \in cats : c.user_id = uid /\ c.name = name}
    IN  IF found = {} THEN {}
        ELSE {CHOOSE c \in found : \A o \in found : c.id <= o.id}

\* the row loop with a commit before every early return
RECURSIVE ImportLoopCommitting(_, _, _, _, _)
ImportLoopCommitting(uid, rows, cats, exps, pending) ==
    IF rows = <<>>
    THEN ImportResult(cats, exps \cup pending, 200, "Import completed")
    ELSE LET row == Head(rows)
             missing == validate_required_fields(row, <<"category", "amount", "date">>)
             date_obj == validate_date(row.date)
             found == FirstByName(cats, uid, row.category)
             newCat == Category(NextId(cats), uid, row.category, GetOr(row, "type", "expense"))
             cat == IF found = {} THEN newCat ELSE CHOOSE c \in found : TRUE
             cats1 == IF found = {} THEN cats \cup {newCat} ELSE cats
             exps1 == IF found = {} THEN exps \cup pending ELSE exps
             pending1 == IF found = {} THEN {} ELSE pending
             exp == Expense(NextId(exps1 \cup pending1), uid, cat.id, Float(row.amount),
                            date_obj, Get(row, "merchant"), Get(row, "account"),
                            Get(row, "project"), Get(row, "tags"), Get(row, "note"))
         IN  IF missing # ""
             THEN ImportResult(cats, exps \cup pending, 400, "Invalid row data")
             ELSE IF date_obj = NoDate
             THEN ImportResult(cats, exps \cup pending, 400, "Invalid date in row")
             ELSE IF ~FloatOk(row.amount)
             THEN ImportResult(cats1, exps1, 500, "Internal server error")
             ELSE ImportLoopCommitting(uid, Tail(rows), cats1, exps1, pending1 \cup {exp})

\* the row loop.  cats and exps are the committed tables, pending the expenses
\* added to the session since the last commit.  The commit that follows the
\* creation of a category commits the pending expenses with it; an early
\* return leaves the session to be discarded with the request, and the
\* except branch rolls it back: both drop the pending expenses only.
RECURSIVE ImportLoop(_, _, _, _, _)
ImportLoop(uid, rows, cats, exps, pending) ==
    IF rows = <<>>
    THEN ImportResult(cats, exps \cup pending, 200, "Import completed")
    ELSE LET row == Head(rows)
             missing == validate_required_fields(row, <<"category", "amount", "date">>)
             date_obj == validate_date(row.date)
             found == FirstByName(cats, uid, row.category)
             newCat == Category(NextId(cats), uid, row.category, GetOr(row, "type", "expense"))
             cat == IF found = {} THEN newCat ELSE CHOOSE c \in found : TRUE
             cats1 == IF found = {} THEN cats \cup {newCat} ELSE cats
             exps1 == IF found = {} THEN exps \cup pending ELSE exps
             pending1 == IF found = {} THEN {} ELSE pending
             exp == Expense(NextId(exps1 \cup pending1), uid, cat.id, Float(row.amount),
                            date_obj, Get(row, "merchant"), Get(row, "account"),
                            Get(row, "project"), Get(row, "tags"), Get(row, "note"))
         IN  IF missing # ""
             THEN ImportResult(cats, exps, 400, "Invalid row data")
             ELSE IF date_obj = NoDate
             THEN ImportResult(cats, exps, 400, "Invalid date in row")
             ELSE IF ~FloatOk(row.amount)
             THEN ImportResult(cats1, exps1, 500, "Internal server error")
             ELSE ImportLoop(uid, Tail(rows), cats1, exps1, pending1 \cup {exp})

\* file is "none" when the request has no file part, else the file's name
\* ends in file.ext and its content is the rows; maxCat and maxExp bound the
\* ids the tables may reach
ImportWithin(uid, file, maxCat, maxExp) ==
    /\ Idle
    /\ LET result == IF file.ext = "none"
                     THEN ImportResult(categories, expenses, 400, "No file uploaded")
                     ELSE IF file.ext # "csv"
                     THEN ImportResult(categories, expenses, 400, "File must be CSV")
                     ELSE ImportLoop(uid, file.rows, categories, expenses, {})
       IN  /\ \A c \in result.cats : c.id <= maxCat
           /\ \A e \in result.exps : e.id <= maxExp
           /\ categories' = result.cats
           /\ expenses' = result.exps
           /\ resp' = Response("importRows", uid, file, result.status, result.msg, NoBody)
           /\ UNCHANGED <<clock, inflight, users>>

import_csv(uid, file) == ImportWithin(uid, file, MaxCatId, MaxExpId)

\* date.today() of the dashboard; the outcome is kept as a response
dateRange(period, year, month, week) ==
    /\ Idle
    /\ resp' = Response("get_date_range", 0,
                        DateRangeRequest(period, year, month, week),
                        200, "", get_date_range(period, year, month, week, clock))
    /\ UNCHANGED <<categories, expenses, clock, inflight, users>>

-----------------------------------------------------------------------------
(* Calendar specification: the window and bucket computations on every day *)
(* of the modelled years, for a ledger with one transaction dated today     *)


CalDays == Ord(2018, 1, 1) .. Ord(2018 + NumYears - 1, 12, 31)

CalCategory == Category(1, 1, "Food", "expense")

CalExpense(d) ==
    Expense(1, 1, 1, 100, d, None, None, None, None, None)

InitCal ==
    /\ clock \in CalDays
    /\ categories = {CalCategory}
    /\ expenses = {CalExpense(clock)}
    /\ resp = NoResponse
    /\ inflight = [w \in Workers |-> NoUpload]
    /\ users = Registered

NextCal ==
    \/ \E period \in Periods \cup {Absent} :
           getSummary(1, SummaryArgs(period, AbsentV, AbsentV))
    \/ \E period \in Periods \cup {Absent} :
           getAnalysis(1, AnalysisArgs(Absent, period, AbsentV, AbsentV, Absent))
    \/ \E period \in {"weekly", "monthly", "yearly"} :
           dateRange(period, 0, 0, 0)
    \/ respond

SpecCal == InitCal /\ [][NextCal]_vars

\* ISO 8601: the week of a date is the week of its Thursday
IsoThursday(d) == d - Weekday(d) + 3
IsoYear(d) == YearOf(IsoThursday(d))
IsoWeek(d) == ((IsoThursday(d) - Ord(IsoYear(d), 1, 1)) \div 7) + 1

\* the window a response reports, as ordinals
RespFrom == validate_date(resp.body.from_date)
RespTo == validate_date(resp.body.to_date)

IsDefaultSummary ==
    /\ resp.op = "getSummary"
    /\ resp.status = 200
    /\ ~(Truthy(resp.req.args.from) /\ Truthy(resp.req.args.to))

FirstOfMonth(d) == DayOf(d) = 1
LastOfMonth(d) == MonthOf(d + 1) # MonthOf(d)
SameMonth(a, b) == YearOf(a) = YearOf(b) /\ MonthOf(a) = MonthOf(b)

\* C9: without an explicit range the window of getSummary is today (daily),
\* the Monday..Sunday week of today (weekly), the first..last day of today's
\* month (monthly), Jan 1..Dec 31 of today's year (yearly), and contains today;
\* the dashboard's get_date_range computes the same weekly, monthly and yearly
\* windows
C9_DefaultWindow ==
    /\ IsDefaultSummary =>
          LET today == resp.req.today
              period == resp.body.period
          IN  /\ RespFrom <= today /\ today <= RespTo
              /\ period = "daily" => RespFrom = today /\ RespTo = today
              /\ period = "weekly" =>
                    /\ Weekday(RespFrom) = 0 /\ Weekday(RespTo) = 6
                    /\ RespTo = RespFrom + 6
              /\ period = "monthly" =>
                    /\ FirstOfMonth(RespFrom) /\ LastOfMonth(RespTo)
                    /\ SameMonth(RespFrom, today) /\ SameMonth(RespTo, today)
              /\ period = "yearly" =>
                    /\ resp.body.from_date = Ymd(YearOf(today), 1, 1)
                    /\ resp.body.to_date = Ymd(YearOf(today), 12, 31)
    /\ resp.op = "get_date_range" =>
          resp.body = <<IsoFormat(DefaultWindow(resp.req.period, clock)[1]),
                        IsoFormat(DefaultWindow(resp.req.period, clock)[2])>>

\* a monthly default window of a 29-day February has been returned
C9_Witness ==
    /\ IsDefaultSummary
    /\ resp.body.period = "monthly"
    /\ resp.body.to_date = Ymd(2020, 2, 29)

\* C10: every weekly record of getAnalysis carries the ISO 8601 year and week
\* of the transactions it sums (so 2018-12-31 is week 1 of 2019)
C10_WeeklyIsISO ==
    (resp.op = "getAnalysis" /\ resp.status = 200 /\ resp.req.period = "weekly") =>
        /\ \A i \in DOMAIN resp.body :
              \E p \in AnalysisRows(resp.uid, resp.req) :
                  /\ resp.body[i].year = IsoYear(p[1].date)
                  /\ resp.body[i].week = IsoWeek(p[1].date)
        /\ \A p \in AnalysisRows(resp.uid, resp.req) :
              \E i \in DOMAIN resp.body :
                  /\ resp.body[i].year = IsoYear(p[1].date)
                  /\ resp.body[i].week = IsoWeek(p[1].date)

-----------------------------------------------------------------------------
(* Ledger specification: two tenants, every handler, requests served one at *)
(* a time, starting from empty tables                                       *)

MaxRows == 2

\* the dates that occur in requests: a Sunday, the Monday after it (a Dec 31)
\* and the Tuesday after that, and a text that is not a date
Dec30 == Ymd(2018, 12, 30)
Dec31 == Ymd(2018, 12, 31)
Jan01 == Ymd(2019, 1, 1)
Feb30 == Ymd(2019, 2, 30)

CatIds == 1 .. MaxCatId
ExpIds == 1 .. MaxExpId

NewExpense(category_id, amount, date) ==
    ExpenseData(category_id, amount, date, Absent, Absent, Absent, Absent, Absent)
PatchOf(category_id, amount, date, merchant) ==
    ExpenseData(category_id, amount, date, merchant, Absent, Absent, Absent, Absent)
CsvRow(category, type, amount, date) ==
    Row(category, type, amount, date, Absent, Absent, Absent, Absent, Absent)

CategoryInputs ==
    {CategoryData("Food", Absent), CategoryData(Absent, Absent)}
CategoryPatches ==
    {CategoryData("Pay", "income")}
ExpenseInputs ==
    {NewExpense(Num(i), a, Dec31) : i \in CatIds, a \in {Num(100), Num(0 - 5)}}
        \cup {NewExpense(AbsentV, Num(100), Dec31)}
ExpensePatches ==
    {PatchOf(Num(i), AbsentV, AbsentV, Absent) : i \in CatIds}
CsvRows ==
    {CsvRow("Food", Absent, Num(100), Dec31),
     CsvRow("Pay", "income", Num(250), Jan01),
     CsvRow("Food", Absent, Num(100), Feb30),
     CsvRow("Food", Absent, NoneV, Dec31),
     CsvRow("Food", Absent, Raw("abc"), Dec31)}
RECURSIVE SeqsUpTo(_, _)
SeqsUpTo(S, n) ==
    IF n = 0 THEN {<<>>}
    ELSE LET shorter == SeqsUpTo(S, n - 1)
         IN  shorter \cup {Append(q, x) : q \in shorter, x \in S}
Files ==
    {File("none", <<>>), File("txt", <<>>)}
        \cup {File("csv", rows) : rows \in SeqsUpTo(CsvRows, MaxRows)}
AllDates == RangeArgs(AbsentV, AbsentV)
SummaryInputs == {SummaryArgs("yearly", Dec30, Jan01)}
AnalysisInputs ==
    {AnalysisArgs(Absent, "yearly", AbsentV, AbsentV, Absent),
     AnalysisArgs("merchant", "weekly", Dec31, AbsentV, "1")}

Init ==
    /\ categories = {}
    /\ expenses = {}
    /\ resp = NoResponse
    /\ clock = validate_date(Dec31)
    /\ inflight = [w \in Workers |-> NoUpload]
    /\ users = Registered

Next ==
    \/ \E uid \in Users, data \in CategoryInputs : createCategory(uid, data)
    \/ \E uid \in Users : listCategories(uid)
    \/ \E uid \in Users, cid \in CatIds, data \in CategoryPatches : updateCategory(uid, cid, data)
    \/ \E uid \in Users, cid \in CatIds : deleteCategory(uid, cid)
    \/ \E uid \in Users, data \in ExpenseInputs : createTransaction(uid, data)
    \/ \E uid \in Users : listTransactions(uid, AllDates)
    \/ \E uid \in Users, eid \in ExpIds, data \in ExpensePatches : updateTransaction(uid, eid, data)
    \/ \E uid \in Users, eid \in ExpIds : deleteTransaction(uid, eid)
    \/ \E uid \in Users, file \in Files : import_csv(uid, file)
    \/ \E uid \in Users : exportRows(uid, AllDates)
    \/ \E uid \in Users, args \in SummaryInputs : getSummary(uid, args)
    \/ \E uid \in Users, args \in AnalysisInputs : getAnalysis(uid, args)
    \/ respond

Spec == Init /\ [][Next]_vars

\* the validation failures of an import: a row without a required field or
\* with a date that does not parse
ImportRejected(r) ==
    /\ r.op = "importRows"
    /\ r.status = 400
    /\ r.msg \in {"Invalid row data", "Invalid date in row"}

\* C1: an import that ends with a validation failure of some row leaves the
\* persisted categories and transactions exactly as they were before it,
\* whatever rows precede the failing one
C1_ImportAllOrNothing ==
    [][ImportRejected(resp') => (categories' = categories /\ expenses' = expenses)]_vars

\* C2: no persisted transaction refers to an existing category that is owned
\* by a tenant other than the transaction's owner
C2_CategoryOfSameTenant ==
    \A e \in expenses : \A c \in categories :
        c.id = e.category_id => c.user_id = e.user_id

\* what tenant uid reads: its categories, its transactions, the lines of its
\* export, the two totals of its summary over the dates in use, and the
\* records of its analysis
ReadsOf(uid) ==
    <<{c \in categories : c.user_id = uid},
      ExpensesInRange(uid, AllDates),
      {ExportRow(e) : e \in ExpensesInRange(uid, AllDates)},
      SummaryTotal(uid, "income", validate_date(Dec30), validate_date(Jan01)),
      SummaryTotal(uid, "expense", validate_date(Dec30), validate_date(Jan01)),
      AnalysisRecords(uid, AnalysisArgs(Absent, "yearly", AbsentV, AbsentV, Absent))>>

\* C3: tenant noninterference.  Two runs that differ by one more operation of
\* another tenant give tenant a the same reads, so an operation served for
\* another tenant leaves everything a reads as it was
C3_Noninterference ==
    [][\A a \in Users : resp'.uid \notin {0, a} => ReadsOf(a)' = ReadsOf(a)]_vars

\* C7: every persisted transaction has amount >= 0 and both totals of every
\* summary are non-negative
C7_AmountsNonNegative ==
    /\ \A e \in expenses : e.amount >= 0
    /\ (resp.op = "getSummary" /\ resp.status = 200) =>
          (resp.body.total_income >= 0 /\ resp.body.total_expense >= 0)

-----------------------------------------------------------------------------
(* Ownership specification: two tenants create, edit and delete categories  *)
(* and transactions by id.  The edits repeat the stored values or carry a    *)
(* date that does not parse, so the tables vary in owners and ids only       *)

OwnCategoryInputs == {CategoryData("Food", Absent)}
OwnCategoryPatches == {CategoryData("Food", "misc")}
OwnExpenseInputs ==
    {NewExpense(Num(i), Num(100), Dec31) : i \in CatIds}
        \cup {NewExpense(Num(i), Raw("abc"), Dec31) : i \in CatIds}
        \cup {NewExpense(Num(i), Num(100), Feb30) : i \in CatIds}
        \cup {NewExpense(AbsentV, Num(100), Dec31)}
OwnExpensePatches ==
    {PatchOf(AbsentV, Num(100), AbsentV, Absent), PatchOf(AbsentV, AbsentV, Feb30, Absent)}

NextOwn ==
    \/ \E uid \in Users, data \in OwnCategoryInputs : createCategory(uid, data)
    \/ \E uid \in Users, cid \in CatIds, data \in OwnCategoryPatches : updateCategory(uid, cid, data)
    \/ \E uid \in Users, cid \in CatIds : deleteCategory(uid, cid)
    \/ \E uid \in Users, data \in OwnExpenseInputs : createTransaction(uid, data)
    \/ \E uid \in Users, eid \in ExpIds, data \in OwnExpensePatches : updateTransaction(uid, eid, data)
    \/ \E uid \in Users, eid \in ExpIds : deleteTransaction(uid, eid)
    \/ respond

SpecOwn == Init /\ [][NextOwn]_vars

\* the row that the edit or delete request of response r names is not a row
\* of r's tenant: there is no such row, or it is another tenant's
NotOwnedTarget(r) ==
    IF r.op \in {"updateCategory", "deleteCategory"}
    THEN ~\E c \in categories : c.id = r.req.id /\ c.user_id = r.uid
    ELSE ~\E e \in expenses : e.id = r.req.id /\ e.user_id = r.uid

IsEdit(r) ==
    r.op \in {"updateCategory", "deleteCategory", "updateTransaction", "deleteTransaction"}

\* C4: an update or delete of a category or transaction whose id is absent
\* or owned by another tenant fails, with one and the same response in both
\* cases, and leaves the persisted tables unchanged
C4_NotOwnedFails ==
    [][(IsEdit(resp') /\ NotOwnedTarget(resp')) =>
          /\ resp'.status = 500
          /\ resp'.msg = "Internal server error"
          /\ resp'.body = NoBody
          /\ categories' = categories
          /\ expenses' = expenses]_vars

\* a delete of another tenant's transaction has been refused
C4_Witness ==
    /\ resp.op = "deleteTransaction"
    /\ resp.status = 500
    /\ \E e \in expenses : e.id = resp.req.id /\ e.user_id # resp.uid

\* the request of response r names a category, which is / is not r's tenant's
NamesCategory(r) == r.req.category_id.k = "num"
OwnsCategory(r) ==
    \E c \in categories : c.id = r.req.category_id.v /\ c.user_id = r.uid

\* the step added exactly one transaction, owned by r's tenant and in the
\* category r's request names
AddedOne(r) ==
    \E e \in expenses' \ expenses :
        /\ expenses' = expenses \cup {e}
        /\ e.user_id = r.uid
        /\ e.category_id = r.req.category_id.v

\* C5 as stated: createTransaction with a category_id that does not exist or
\* is another tenant's fails with the invalid-category error and persists
\* nothing; with a category_id of the tenant and a valid date it persists
\* exactly one new transaction of the tenant
C5_AsStated ==
    [][(resp'.op = "createTransaction" /\ NamesCategory(resp')) =>
          /\ ~OwnsCategory(resp') =>
                (resp'.msg = "Invalid category" /\ expenses' = expenses)
          /\ (OwnsCategory(resp') /\ validate_date(resp'.req.date) # NoDate) =>
                AddedOne(resp')]_vars

\* C5: createTransaction with every required field present and a category_id
\* that does not exist or is another tenant's fails and persists nothing, with
\* the invalid-category error when its date parses (the date is checked
\* first); with a category_id of the tenant, a valid date and a numeric amount
\* it persists exactly one new transaction of the tenant
C5_CreateChecksCategory ==
    [][(/\ resp'.op = "createTransaction"
        /\ validate_required_fields(resp'.req, <<"category_id", "amount", "date">>) = "") =>
          /\ ~OwnsCategory(resp') =>
                /\ resp'.status = 400
                /\ expenses' = expenses
                /\ validate_date(resp'.req.date) # NoDate => resp'.msg = "Invalid category"
          /\ (/\ OwnsCategory(resp')
              /\ validate_date(resp'.req.date) # NoDate
              /\ FloatOk(resp'.req.amount)) =>
                (resp'.status = 201 /\ AddedOne(resp'))]_vars

\* a createTransaction naming another tenant's category has been refused
C5_Witness ==
    /\ resp.op = "createTransaction"
    /\ resp.msg = "Invalid category"
    /\ \E c \in categories : c.id = resp.req.category_id.v /\ c.user_id # resp.uid

-----------------------------------------------------------------------------
(* Summary specification: tenant 1 fills its ledger with both kinds of      *)
(* category and dated amounts, and both tenants ask for summaries            *)

SumCategoryInputs == {CategoryData("Food", Absent), CategoryData("Pay", "income")}
SumExpenseInputs ==
    {NewExpense(Num(i), Num(100), Dec30) : i \in CatIds}
        \cup {NewExpense(Num(i), Num(250), Dec31) : i \in CatIds}
        \cup {NewExpense(Num(1), Num(400), Jan01)}
SumRanges ==
    {<<AbsentV, AbsentV>>, <<Dec30, Dec31>>, <<Dec31, Dec31>>, <<Jan01, Dec30>>}
SumArgs ==
    {SummaryArgs(period, r[1], r[2]) : period \in {Absent, "daily", "yearly"}, r \in SumRanges}
        \cup {SummaryArgs("hourly", Dec30, Dec31),
              SummaryArgs("monthly", Feb30, Dec31),
              SummaryArgs("monthly", Dec31, AbsentV)}

NextSum ==
    \/ \E data \in SumCategoryInputs : createCategory(1, data)
    \/ \E data \in SumExpenseInputs : createTransaction(1, data)
    \/ \E uid \in Users, args \in SumArgs : getSummary(uid, args)
    \/ respond

SpecSum == Init /\ [][NextSum]_vars

\* the amount of the transaction with id i when it is the tenant's, is dated
\* in [lo, hi] and its category is of the kind; 0 otherwise
AmountAt(i, uid, kind, lo, hi) ==
    LET es == {e \in expenses :
                  /\ e.id = i /\ e.user_id = uid
                  /\ lo <= e.date /\ e.date <= hi
                  /\ \E c \in categories : c.id = e.category_id /\ c.type = kind}
    IN  IF es = {} THEN 0 ELSE (CHOOSE e \in es : TRUE).amount

RECURSIVE TotalUpTo(_, _, _, _, _)
TotalUpTo(n, uid, kind, lo, hi) ==
    IF n = 0 THEN 0
    ELSE AmountAt(n, uid, kind, lo, hi) + TotalUpTo(n - 1, uid, kind, lo, hi)

\* the sum of the amounts of the tenant's transactions of a kind in [lo, hi]
LedgerTotal(uid, kind, lo, hi) == TotalUpTo(MaxExpId, uid, kind, lo, hi)

IsSummary == resp.op = "getSummary" /\ resp.status = 200

\* C6: the totals of a summary are the sums of the amounts of the tenant's
\* transactions dated in the returned window whose category is of kind income,
\* respectively expense, and the balance is income - expense
C6_SummaryTotals ==
    IsSummary =>
        /\ resp.body.total_income = LedgerTotal(resp.uid, "income", RespFrom, RespTo)
        /\ resp.body.total_expense = LedgerTotal(resp.uid, "expense", RespFrom, RespTo)
        /\ resp.body.balance = resp.body.total_income - resp.body.total_expense

\* a summary with an income and an expense, of different amounts, has been
\* returned
C6_Witness ==
    /\ IsSummary
    /\ resp.body.total_income > 0
    /\ resp.body.total_expense > 0
    /\ resp.body.balance # 0

\* the summary was asked with a from and a to that both parse and a period of
\* the fixed set (or none)
HasExplicitRange ==
    /\ resp.op = "getSummary"
    /\ resp.req.args.period \in Periods \cup {Absent}
    /\ validate_date(resp.req.args.from) # NoDate
    /\ validate_date(resp.req.args.to) # NoDate

\* C8: given both from and to, getSummary fails with the invalid-range error
\* when from > to; otherwise it returns from and to as its window and the
\* totals of exactly [from, to], whatever the period
C8_ExplicitRange ==
    HasExplicitRange =>
        LET from == validate_date(resp.req.args.from)
            to == validate_date(resp.req.args.to)
        IN  IF from > to
            THEN resp.status = 400 /\ resp.msg = "Start date must be before end date"
            ELSE /\ resp.status = 200
                 /\ resp.body.from_date = resp.req.args.from
                 /\ resp.body.to_date = resp.req.args.to
                 /\ resp.body.total_income = LedgerTotal(resp.uid, "income", from, to)
                 /\ resp.body.total_expense = LedgerTotal(resp.uid, "expense", from, to)

\* a daily summary has been returned for an explicit two-day range that holds
\* a transaction dated before today
C8_Witness ==
    /\ HasExplicitRange
    /\ resp.status = 200
    /\ resp.body.period = "daily"
    /\ resp.req.args.from = Dec30
    /\ resp.req.args.to = Dec31
    /\ \E e \in expenses : e.user_id = resp.uid /\ e.date < resp.req.today

-----------------------------------------------------------------------------
(* Analysis on the ledger specification *)

IsAnalysis == resp.op = "getAnalysis" /\ resp.status = 200

PeriodOf(args) == GetOr(args, "period", "monthly")
GroupByOf(args) == GetOr(args, "group_by", "category_id")

\* the tenant's transactions that pass the date filter of the request and,
\* when only_expense is set, have a category of kind expense
AnalysisSlice(uid, args) ==
    {e \in expenses :
        /\ e.user_id = uid
        /\ (args.from # AbsentV => e.date >= validate_date(args.from))
        /\ (args.to # AbsentV => e.date <= validate_date(args.to))
        /\ (args.only_expense = "1" =>
               \E c \in categories : c.id = e.category_id /\ c.type = "expense")}

\* the bucket key and group value of a transaction, the bucket key of a record
SliceKey(args, e) == <<Bucket(PeriodOf(args), e.date), e[GroupByOf(args)]>>
RecordBucket(period, x) ==
    IF period = "daily" THEN <<validate_date(x.date)>>
    ELSE IF period = "monthly" THEN <<x.year, x.month>>
    ELSE IF period = "weekly" THEN <<x.year, x.week>>
    ELSE <<x.year>>

\* the sum of the amounts of a set of transactions, id by id
RECURSIVE SumAmountsUpTo(_, _)
SumAmountsUpTo(n, S) ==
    IF n = 0 THEN 0
    ELSE LET es == {e \in S : e.id = n}
         IN  (IF es = {} THEN 0 ELSE (CHOOSE e \in es : TRUE).amount)
                 + SumAmountsUpTo(n - 1, S)
SliceSum(S) == SumAmountsUpTo(IF S = {} THEN 0 ELSE Max({e.id : e \in S}), S)

\* C11: getAnalysis returns exactly one record per (bucket key, group value)
\* that occurs among the tenant's transactions passing the filters, and the
\* total of each record is the sum of the amounts of exactly the transactions
\* with that key
C11_OneRecordPerKey ==
    IsAnalysis =>
        LET slice == AnalysisSlice(resp.uid, resp.req)
            keys == {SliceKey(resp.req, e) : e \in slice}
        IN  /\ Len(resp.body) = Cardinality(keys)
            /\ \A k \in keys : \E i \in DOMAIN resp.body :
                  /\ RecordBucket(PeriodOf(resp.req), resp.body[i]) = k[1]
                  /\ resp.body[i].group = k[2]
                  /\ resp.body[i].total =
                        SliceSum({e \in slice : SliceKey(resp.req, e) = k})

\* the natural order of group values: category ids as numbers, texts in
\* alphabetical order with the missing value first
TextOrder == <<None, "", "Shop">>
TextRank(t) == CHOOSE i \in DOMAIN TextOrder : TextOrder[i] = t
GroupLeq(args, a, b) ==
    IF GroupByOf(args) = "category_id" THEN a <= b ELSE TextRank(a) <= TextRank(b)

\* C12: the records of getAnalysis are in ascending order of bucket key, and
\* records of one bucket are in ascending order of group value
C12_SortedByBucketThenGroup ==
    IsAnalysis =>
        \A i, j \in DOMAIN resp.body : i < j =>
            LET bi == RecordBucket(PeriodOf(resp.req), resp.body[i])
                bj == RecordBucket(PeriodOf(resp.req), resp.body[j])
            IN  /\ TupleLeq(bi, bj)
                /\ bi = bj => GroupLeq(resp.req, resp.body[i].group, resp.body[j].group)

\* C13: on one persisted state, every sequence getAnalysis can return for a
\* request is the same sequence, whatever order the store yields the rows in
C13_Deterministic ==
    IsAnalysis => \A body \in AnalysisBodies(resp.uid, resp.req) : body = resp.body

RECURSIVE SumTotals(_)
SumTotals(records) ==
    IF records = <<>> THEN 0 ELSE Head(records).total + SumTotals(Tail(records))

\* C14: grouped by merchant, account or project, the transactions of a bucket
\* that lack the group field are summed into a record whose group is the
\* sentinel "unspecified", no record has a missing group, and the totals of
\* all records add up to the amounts of the whole filtered slice
C14_MissingGroupSentinel ==
    (IsAnalysis /\ GroupByOf(resp.req) \in {"merchant", "account", "project"}) =>
        LET slice == AnalysisSlice(resp.uid, resp.req)
        IN  /\ \A e \in slice : e[GroupByOf(resp.req)] = None =>
                  \E i \in DOMAIN resp.body :
                      /\ resp.body[i].group = "unspecified"
                      /\ RecordBucket(PeriodOf(resp.req), resp.body[i])
                            = Bucket(PeriodOf(resp.req), e.date)
            /\ \A i \in DOMAIN resp.body : resp.body[i].group # None
            /\ SumTotals(resp.body) = SliceSum(slice)

-----------------------------------------------------------------------------
(* Import specification: the tenants import batches of rows that name old  *)
(* and new categories, and create categories named Food by hand             *)

ImpRows ==
    {CsvRow("Food", Absent, Num(100), Dec31),
     CsvRow("Pay", "income", Num(250), Jan01),
     CsvRow("Food", Absent, Num(100), Feb30)}
ImpFiles == {File("csv", rows) : rows \in SeqsUpTo(ImpRows, MaxRows)}

NextImp ==
    \/ \E uid \in Users : createCategory(uid, CategoryData("Food", Absent))
    \/ \E uid \in Users, file \in ImpFiles : import_csv(uid, file)
    \/ respond

SpecImp == Init /\ [][NextImp]_vars

\* the names the rows of a batch give, and how many rows give name n
NamesOf(rows) == {rows[i].category : i \in DOMAIN rows}
RowsNaming(rows, n) == Cardinality({i \in DOMAIN rows : rows[i].category = n})

\* C15: a successful import resolves every row to a category of the tenant
\* with the row's name, an existing one when there is one (also one created
\* for an earlier row of the batch): it creates exactly one category per
\* distinct name the tenant did not have, and all rows of one name refer to
\* one and the same category id
C15_ImportResolvesByName ==
    [][(resp'.op = "importRows" /\ resp'.status = 200) =>
          LET uid == resp'.uid
              rows == resp'.req.rows
              newNames == {n \in NamesOf(rows) :
                              ~\E c \in categories : c.user_id = uid /\ c.name = n}
              newCats == categories' \ categories
              newExps == expenses' \ expenses
          IN  /\ categories \subseteq categories'
              /\ expenses \subseteq expenses'
              /\ Cardinality(newCats) = Cardinality(newNames)
              /\ \A c \in newCats : c.user_id = uid /\ c.name \in newNames
              /\ Cardinality(newExps) = Len(rows)
              /\ \A e \in newExps : e.user_id = uid
              /\ \A n \in NamesOf(rows) :
                    \E c \in categories' :
                        /\ c.user_id = uid /\ c.name = n
                        /\ n \notin newNames => c \in categories
                        /\ Cardinality({e \in newExps : e.category_id = c.id})
                              = RowsNaming(rows, n)]_vars

\* a batch of two rows naming the same new category has been imported: the
\* tenant has one category of that name and both transactions refer to it
C15_Witness ==
    /\ resp.op = "importRows" /\ resp.status = 200
    /\ Len(resp.req.rows) = 2
    /\ resp.req.rows[1].category = "Pay" /\ resp.req.rows[2].category = "Pay"
    /\ \E c \in categories :
          /\ c.name = "Pay" /\ c.user_id = resp.uid
          /\ Cardinality({e \in expenses : e.category_id = c.id}) = 2
    /\ \E c \in categories : c.name = "Food" /\ c.user_id # resp.uid

\* C17: an import that aborts with an exception (the 500 response of the
\* except branch) leaves the persisted categories and transactions as they
\* were before the import
C17_RollbackRestores ==
    [][(resp'.op = "importRows" /\ resp'.status = 500) =>
          (categories' = categories /\ expenses' = expenses)]_vars

IsExport == resp.op = "exportRows" /\ resp.status = 200

\* the export's sort key as the claim states it: date, then id
DateThenId(e) == <<e.date, e.id>>

\* C18: the rows of an export are the tenant's transactions in the range,
\* one row each, by date ascending and then id ascending
C18_ExportOrderedByDateThenId ==
    IsExport =>
        \E order \in StableSorted(ExpensesInRange(resp.uid, resp.req),
                                  [e \in ExpensesInRange(resp.uid, resp.req) |-> DateThenId(e)]) :
            resp.body.rows = [i \in DOMAIN order |-> ExportRow(order[i])]

-----------------------------------------------------------------------------
(* Export specification: categories are created and deleted under the
   transactions that reference them, and the tenant exports *)

NextExp ==
    \/ \E uid \in Users : createCategory(uid, CategoryData("Food", Absent))
    \/ \E uid \in Users, cid \in CatIds : deleteCategory(uid, cid)
    \/ \E uid \in Users, data \in ExpenseInputs : createTransaction(uid, data)
    \/ \E uid \in Users : exportRows(uid, AllDates)
    \/ respond

SpecExp == Init /\ [][NextExp]_vars

\* the transactions of a tenant
TransactionsOf(uid) == {e \in expenses : e.user_id = uid}

\* the category column the claim expects for a transaction: the name of the
\* category with that id, the placeholder when there is none
ExpectedCategory(e) ==
    IF \E c \in categories : c.id = e.category_id
    THEN (CHOOSE c \in categories : c.id = e.category_id).name
    ELSE "Unknown"

-----------------------------------------------------------------------------
(* Round trip specification: a tenant's export is uploaded as the import of a
   tenant that has no data *)

\* csv.writer writes None as the empty text and any text as it is;
\* csv.DictReader reads every column back as text
CsvText(x) == IF x = None THEN "" ELSE x

\* the line DictReader yields for a line of the export: the eight columns of
\* the header, and no type column
DictReaderRow(line) ==
    Row(CsvText(line.category), Absent, line.amount, line.date,
        CsvText(line.merchant), CsvText(line.account), CsvText(line.project),
        CsvText(line.tags), CsvText(line.note))

\* the file a download of the export is: as exportRows, the lines of
\* query.all() in a store order
ExportFiles(uid) ==
    {File("csv", [i \in DOMAIN order |-> DictReaderRow(ExportRow(order[i]))]) :
        order \in Orderings(ExpensesInRange(uid, AllDates))}

TenantEmpty(uid) ==
    /\ ~\E c \in categories : c.user_id = uid
    /\ ~\E e \in expenses : e.user_id = uid

TripExpenses ==
    {PatchOf(Num(1), Num(100), Dec31, Absent),
     PatchOf(Num(1), Num(100), Dec31, "Shop"),
     PatchOf(Num(2), Num(100), Dec31, Absent)}

\* the tenant that records the data; every other tenant starts without data
\* and takes the export over
Recorder == 1

NextTrip ==
    \/ createCategory(Recorder, CategoryData("Food", Absent))
    \/ \E cid \in CatIds : deleteCategory(Recorder, cid)
    \/ \E data \in TripExpenses : createTransaction(Recorder, data)
    \/ \E b \in Users :
          /\ b # Recorder
          /\ TenantEmpty(b)
          /\ \E file \in ExportFiles(Recorder) :
                 ImportWithin(b, file, 2 * MaxCatId, 2 * MaxExpId)
    \/ respond

SpecTrip == Init /\ [][NextTrip]_vars

\* the multiset of the lines of the tenant's export: each line with the
\* number of transactions that export as it
ExportLines(uid) ==
    [line \in {ExportRow(e) : e \in TransactionsOf(uid)} |->
        Cardinality({e \in TransactionsOf(uid) : ExportRow(e) = line})]

\* C20: when the export of tenant a is imported by a tenant b without data,
\* the import succeeds and the export of b then holds the same multiset of
\* (date, amount, category name, merchant, account, project, tags, note) as
\* the export of a that was imported
C20_RoundTrip ==
    [][\A a, b \in Users :
          (/\ a # b
           /\ TenantEmpty(b)
           /\ resp'.op = "importRows"
           /\ resp'.uid = b
           /\ resp'.req \in ExportFiles(a))
          => (resp'.status = 200 /\ ExportLines(b)' = ExportLines(a))]_vars

\* a round trip of two transactions: one whose category was deleted, and one
\* recorded without a merchant beside one with a merchant
C20_Witness ==
    /\ resp.op = "importRows"
    /\ resp.status = 200
    /\ Len(resp.req.rows) = 2
    /\ \E i, j \in 1 .. 2 :
           /\ resp.req.rows[i].category = "Unknown"
           /\ resp.req.rows[i].merchant = ""
           /\ resp.req.rows[j].merchant = "Shop"
    /\ Cardinality(TransactionsOf(resp.uid)) = 2
    /\ \E c \in categories : c.user_id = resp.uid /\ c.name = "Unknown"

-----------------------------------------------------------------------------
(* POST /api/import served by two workers at once.  The handler has no lock
   of its own: its statements interleave with the other worker's, and each
   statement is one step.  SQLite lets any worker read the committed rows and
   lets one worker at a time write: a worker holds the write lock from its
   first INSERT to its COMMIT or ROLLBACK *)

\* the upload of worker w becomes u
Serve(w, u) == inflight' = [inflight EXCEPT ![w] = u]

\* the handler returns: the session is removed with the request, and what it
\* flushed and did not commit is rolled back
Ended(u, status) == Upload("done", u.uid, u.file, <<>>, 0, <<>>, {}, status)

\* no other worker is in a write transaction
WriteLockFree(w) == \A o \in Workers \ {w} : inflight[o].flushed = {}

\* the flush of the session: the pending objects are inserted in the order
\* they were added, each taking the table's next rowid
RECURSIVE Flush(_, _)
Flush(pending, table) ==
    IF pending = <<>> THEN table
    ELSE Flush(Tail(pending), table \cup {[Head(pending) EXCEPT !.id = NextId(table)]})

\* the request reaches a worker: the checks of the file part and its name
importArrives(w, uid, file) ==
    /\ inflight[w].pc = "idle"
    /\ IF file.ext # "csv"
       THEN Serve(w, Upload("done", uid, file, <<>>, 0, <<>>, {}, 400))
       ELSE Serve(w, Upload(IF file.rows = <<>> THEN "commit" ELSE "row",
                            uid, file, file.rows, 0, <<>>, {}, 0))
    /\ UNCHANGED <<categories, expenses, resp, clock, users>>

\* the head of the loop: the row is validated and its category is looked up;
\* the query first flushes the Expense objects pending in the session, which
\* needs the write lock
importRow(w) ==
    LET u == inflight[w]
        row == Head(u.rows)
        found == FirstByName(categories, u.uid, row.category)
        flushed == Flush(u.pending, expenses \cup u.flushed) \ expenses
    IN  /\ u.pc = "row"
        /\ IF validate_required_fields(row, <<"category", "amount", "date">>) # ""
              \/ validate_date(row.date) = NoDate
           THEN Serve(w, Ended(u, 400))
           ELSE /\ u.pending # <<>> => WriteLockFree(w)
                /\ IF found = {}
                   THEN Serve(w, Upload("create", u.uid, u.file, u.rows, 0, <<>>, flushed, 0))
                   ELSE Serve(w, Upload("add", u.uid, u.file, u.rows,
                                        (CHOOSE c \in found : TRUE).id, <<>>, flushed, 0))
        /\ UNCHANGED <<categories, expenses, resp, clock, users>>

\* no category was found: one is added and committed, and with it whatever
\* the worker had flushed
importCreate(w) ==
    LET u == inflight[w]
        row == Head(u.rows)
        newCat == Category(NextId(categories), u.uid, row.category, GetOr(row, "type", "expense"))
    IN  /\ u.pc = "create"
        /\ WriteLockFree(w)
        /\ categories' = categories \cup {newCat}
        /\ expenses' = expenses \cup u.flushed
        /\ Serve(w, Upload("add", u.uid, u.file, u.rows, newCat.id, <<>>, {}, 0))
        /\ UNCHANGED <<resp, clock, users>>

\* the Expense of the row is built and added to the session; float() of a
\* text that is no number raises, and the except branch rolls back
importAdd(w) ==
    LET u == inflight[w]
        row == Head(u.rows)
        exp == Expense(0, u.uid, u.cat, Float(row.amount), validate_date(row.date),
                       Get(row, "merchant"), Get(row, "account"), Get(row, "project"),
                       Get(row, "tags"), Get(row, "note"))
    IN  /\ u.pc = "add"
        /\ IF ~FloatOk(row.amount)
           THEN Serve(w, Ended(u, 500))
           ELSE Serve(w, Upload(IF Tail(u.rows) = <<>> THEN "commit" ELSE "row",
                                u.uid, u.file, Tail(u.rows), 0,
                                Append(u.pending, exp), u.flushed, 0))
        /\ UNCHANGED <<categories, expenses, resp, clock, users>>

\* the commit after the loop
importCommit(w) ==
    LET u == inflight[w]
    IN  /\ u.pc = "commit"
        /\ u.pending # <<>> => WriteLockFree(w)
        /\ expenses' = Flush(u.pending, expenses \cup u.flushed)
        /\ Serve(w, Ended(u, 200))
        /\ UNCHANGED <<categories, resp, clock, users>>

\* a write that finds the lock held waits for it; when the wait times out
\* the statement raises "database is locked" and the except branch answers
importLocked(w) ==
    LET u == inflight[w]
    IN  /\ ~WriteLockFree(w)
        /\ \/ u.pc = "create"
           \/ u.pc = "commit" /\ u.pending # <<>>
           \/ /\ u.pc = "row"
              /\ u.pending # <<>>
              /\ validate_required_fields(Head(u.rows), <<"category", "amount", "date">>) = ""
              /\ validate_date(Head(u.rows).date) # NoDate
        /\ Serve(w, Ended(u, 500))
        /\ UNCHANGED <<categories, expenses, resp, clock, users>>

RaceRows ==
    {CsvRow("Food", Absent, Num(100), Dec31),
     CsvRow("Pay", "income", Num(250), Jan01)}
RaceFiles == {File("csv", rows) : rows \in SeqsUpTo(RaceRows, MaxRows)}

NextRace ==
    \/ \E w \in Workers, uid \in Users, file \in RaceFiles : importArrives(w, uid, file)
    \/ \E w \in Workers : importRow(w)
    \/ \E w \in Workers : importCreate(w)
    \/ \E w \in Workers : importAdd(w)
    \/ \E w \in Workers : importCommit(w)
    \/ \E w \in Workers : importLocked(w)

SpecRace == Init /\ [][NextRace]_vars

\* both workers have answered an upload of the tenant, and every row of both
\* files names the category
BothImported(uid, name) ==
    \A w \in Workers :
        /\ inflight[w].pc = "done"
        /\ inflight[w].uid = uid
        /\ inflight[w].file.rows # <<>>
        /\ \A i \in DOMAIN inflight[w].file.rows : inflight[w].file.rows[i].category = name

\* C16: when two imports of one tenant that name the same new category run
\* at once, both succeed, the tenant ends with one category of that name,
\* and every imported transaction references it
C16_ConcurrentImportsShareCategory ==
    \A uid \in Users, name \in {"Food", "Pay"} :
        BothImported(uid, name) =>
            /\ \A w \in Workers : inflight[w].status = 200
            /\ \E c \in categories :
                   /\ {o \in categories : o.user_id = uid /\ o.name = name} = {c}
                   /\ \A e \in expenses : e.user_id = uid => e.category_id = c.id

-----------------------------------------------------------------------------
(* Listing specification: two tenants record transactions on three
   consecutive days and list them with every kind of range *)

ListExpenseInputs ==
    {NewExpense(Num(i), Num(100), d) : i \in CatIds, d \in {Dec30, Dec31, Jan01}}
ListRanges ==
    {AllDates, RangeArgs(Dec31, AbsentV), RangeArgs(AbsentV, Dec31),
     RangeArgs(Dec31, Dec31), RangeArgs(Dec30, Jan01), RangeArgs(Jan01, Dec30),
     RangeArgs(Feb30, AbsentV)}

NextList ==
    \/ \E uid \in Users : createCategory(uid, CategoryData("Food", Absent))
    \/ \E uid \in Users, data \in ListExpenseInputs : createTransaction(uid, data)
    \/ \E uid \in Users, args \in ListRanges : listTransactions(uid, args)
    \/ respond

SpecList == Init /\ [][NextList]_vars

\* the day a bound of the query names, for the bounds that are dates
DayOfBound(b) == Ord(b.y, b.m, b.d)
IsDay(b) == b \in {Dec30, Dec31, Jan01}

\* the listing was asked with bounds that are all dates
IsListing ==
    /\ resp.op = "listTransactions"
    /\ resp.req.from = AbsentV \/ IsDay(resp.req.from)
    /\ resp.req.to = AbsentV \/ IsDay(resp.req.to)

\* the transactions of the tenant that the bounds of the listing admit
Listed ==
    {e \in expenses :
        /\ e.user_id = resp.uid
        /\ resp.req.from # AbsentV => DayOfBound(resp.req.from) <= e.date
        /\ resp.req.to # AbsentV => e.date <= DayOfBound(resp.req.to)}

\* C21: a listing returns the tenant's transactions dated within the bounds
\* that were supplied, both inclusive, each exactly once and no other
C21_ListingExact ==
    IsListing =>
        /\ resp.status = 200
        /\ {resp.body[i] : i \in DOMAIN resp.body} = Listed
        /\ Len(resp.body) = Cardinality(Listed)

\* a listing from a day to the same day has returned the one transaction of
\* that day and left out the tenant's transaction of another day
C21_Witness ==
    /\ IsListing
    /\ resp.req = RangeArgs(Dec31, Dec31)
    /\ Len(resp.body) = 1
    /\ resp.body[1].date = DayOfBound(Dec31)
    /\ \E e \in expenses : e.user_id = resp.uid /\ e.date # DayOfBound(Dec31)

-----------------------------------------------------------------------------
(* Edit specification: tenant 1 records transactions with a merchant and
   both tenants patch them.  The values 9 and "Bar" occur only in patches
   that are rejected *)

EditPatches ==
    {PatchOf(Num(2), Num(7), AbsentV, Absent),
     PatchOf(AbsentV, AbsentV, Jan01, "Cafe"),
     PatchOf(AbsentV, Num(9), Feb30, "Bar"),
     PatchOf(AbsentV, Num(9), NoneV, "Bar"),
     PatchOf(NoneV, Num(9), AbsentV, "Bar")}

NextEdit ==
    \/ createCategory(1, CategoryData("Food", Absent))
    \/ createTransaction(1, PatchOf(Num(1), Num(100), Dec31, "Shop"))
    \/ \E uid \in Users, eid \in ExpIds, data \in EditPatches : updateTransaction(uid, eid, data)
    \/ respond

SpecEdit == Init /\ [][NextEdit]_vars

\* the stored transaction with the id
Stored(exps, eid) == CHOOSE e \in exps : e.id = eid

\* the value a successful patch leaves in a column: the one given, or the old
\* one when the patch does not name the column
NumberAfter(given, old) == IF given = AbsentV THEN old ELSE given.v
TextAfter(given, old) == IF given = Absent THEN old ELSE given
DateAfter(given, old) == IF given = AbsentV THEN old ELSE DayOfBound(given)

\* C22: a successful update sets the columns the patch names to the given
\* values and leaves alone the columns it does not name, the id and the
\* tenant of the transaction, every other transaction and every category
C22_UpdateSetsPatchedFieldsOnly ==
    [][(resp'.op = "updateTransaction" /\ resp'.status = 200) =>
          LET data == resp'.req.data
              old == Stored(expenses, resp'.req.id)
              new == Stored(expenses', resp'.req.id)
          IN  /\ categories' = categories
              /\ \E e \in expenses : e.id = resp'.req.id /\ e.user_id = resp'.uid
              /\ expenses' \ {new} = expenses \ {old}
              /\ new.id = old.id
              /\ new.user_id = old.user_id
              /\ new.category_id = NumberAfter(data.category_id, old.category_id)
              /\ new.amount = NumberAfter(data.amount, old.amount)
              /\ new.date = DateAfter(data.date, old.date)
              /\ new.merchant = TextAfter(data.merchant, old.merchant)
              /\ new.account = TextAfter(data.account, old.account)
              /\ new.project = TextAfter(data.project, old.project)
              /\ new.tags = TextAfter(data.tags, old.tags)
              /\ new.note = TextAfter(data.note, old.note)]_vars

\* a patch of the category and the amount has been applied to a transaction
\* that keeps its merchant and date, beside a transaction that was not patched
C22_Witness ==
    /\ resp.op = "updateTransaction"
    /\ resp.status = 200
    /\ resp.req.data = PatchOf(Num(2), Num(7), AbsentV, Absent)
    /\ \E e \in expenses :
           /\ e.id = resp.req.id
           /\ e.category_id = 2 /\ e.amount = 7
           /\ e.merchant = "Shop" /\ e.date = DayOfBound(Dec31)
    /\ \E e \in expenses : e.id # resp.req.id /\ e.amount = 100

\* the dates of the patches that do not parse: a day that does not exist and
\* a null
Unparseable == {Feb30, NoneV}

\* C23: an update of a transaction of the tenant whose patch carries a date
\* that does not parse fails with the invalid-date error and stores nothing:
\* the tables stay as they were, and no later request shows the values of
\* the rejected patch
C23_RejectedPatchStoresNothing ==
    [][/\ (/\ resp'.op = "updateTransaction"
           /\ resp'.req.data.date \in Unparseable
           /\ \E e \in expenses : e.id = resp'.req.id /\ e.user_id = resp'.uid)
          => /\ resp'.status = 400
             /\ resp'.msg = "Invalid date format"
             /\ expenses' = expenses
             /\ categories' = categories
       /\ \A e \in expenses' : e.amount # 9 /\ e.merchant # "Bar"]_vars

-----------------------------------------------------------------------------
(* Read specification: tenant 1 fills the tables and both tenants call the
   five read handlers with parameters that are accepted and parameters that
   are rejected *)

ReadSummaryArgs ==
    {SummaryArgs("yearly", AbsentV, AbsentV), SummaryArgs("hourly", AbsentV, AbsentV),
     SummaryArgs("daily", Feb30, Dec31)}
ReadAnalysisArgs ==
    {AnalysisArgs(Absent, "yearly", AbsentV, AbsentV, Absent),
     AnalysisArgs("payee", "yearly", AbsentV, AbsentV, Absent),
     AnalysisArgs("merchant", "weekly", Feb30, AbsentV, "1")}
ReadRanges == {AllDates, RangeArgs(Dec31, Dec31), RangeArgs(Feb30, AbsentV)}

NextRead ==
    \/ createCategory(1, CategoryData("Food", Absent))
    \/ createTransaction(1, NewExpense(Num(1), Num(100), Dec31))
    \/ \E uid \in Users, args \in ReadSummaryArgs : getSummary(uid, args)
    \/ \E uid \in Users, args \in ReadAnalysisArgs : getAnalysis(uid, args)
    \/ \E uid \in Users, args \in ReadRanges : listTransactions(uid, args)
    \/ \E uid \in Users : listCategories(uid)
    \/ \E uid \in Users, args \in ReadRanges : exportRows(uid, args)
    \/ respond

SpecRead == Init /\ [][NextRead]_vars

ReadOps == {"getSummary", "getAnalysis", "listTransactions", "listCategories", "exportRows"}

\* C24: the five read handlers leave the stored categories and transactions
\* as they were, whether they accept or reject their parameters
C24_ReadsChangeNothing ==
    [][resp'.op \in ReadOps => (categories' = categories /\ expenses' = expenses)]_vars

\* a read handler has rejected its parameters while the tables hold rows
C24_Witness ==
    /\ resp.op \in ReadOps
    /\ resp.status = 400
    /\ categories # {}
    /\ expenses # {}

-----------------------------------------------------------------------------
(* Delete specification: two tenants create categories, record transactions
   in them, delete categories and list their transactions *)

NextDel ==
    \/ \E uid \in Users : createCategory(uid, CategoryData("Food", Absent))
    \/ \E uid \in Users, cid \in CatIds : createTransaction(uid, NewExpense(Num(cid), Num(100), Dec31))
    \/ \E uid \in Users, cid \in CatIds : deleteCategory(uid, cid)
    \/ \E uid \in Users : listTransactions(uid, AllDates)
    \/ respond

SpecDel == Init /\ [][NextDel]_vars

\* C25: a successful deleteCategory removes the category it names, which is
\* the tenant's, and no other, and leaves every transaction stored as it was;
\* a listing returns the tenant's transactions with the category_id they
\* were stored with, those of deleted categories included
C25_DeleteLeavesTransactions ==
    [][/\ (resp'.op = "deleteCategory" /\ resp'.status = 200) =>
              /\ \E c \in categories :
                     /\ c.id = resp'.req.id
                     /\ c.user_id = resp'.uid
                     /\ categories' = categories \ {c}
              /\ expenses' = expenses
       /\ resp'.op = "listTransactions" =>
              {resp'.body[i] : i \in DOMAIN resp'.body} = {e \in expenses : e.user_id = resp'.uid}]_vars

\* a listing has returned a transaction whose category was deleted, beside
\* one whose category exists
C25_Witness ==
    /\ resp.op = "listTransactions"
    /\ Len(resp.body) = 2
    /\ \E i \in 1 .. 2 : ~\E c \in categories : c.id = resp.body[i].category_id
    /\ \E i \in 1 .. 2 : \E c \in categories : c.id = resp.body[i].category_id

-----------------------------------------------------------------------------
(* Kind specification: categories are created, patched and imported with
   type values of every sort: left out, one of the two kinds, another text,
   the empty text and null *)

KindCategoryInputs ==
    {CategoryData("Food", t) : t \in {Absent, "income", "savings", None}}
KindCategoryPatches ==
    {CategoryData(Absent, t) : t \in {"income", "savings", None}}
KindFiles ==
    {File("csv", <<CsvRow("Pay", t, Num(100), Dec31)>>) : t \in {Absent, "income", ""}}

NextKind ==
    \/ \E uid \in Users, data \in KindCategoryInputs : createCategory(uid, data)
    \/ \E uid \in Users, cid \in CatIds, data \in KindCategoryPatches : updateCategory(uid, cid, data)
    \/ \E uid \in Users, file \in KindFiles : import_csv(uid, file)
    \/ respond

SpecKind == Init /\ [][NextKind]_vars

\* C26: every stored category is of kind expense or income
C26_KindIsExpenseOrIncome ==
    \A c \in categories : c.type \in {"expense", "income"}

-----------------------------------------------------------------------------
(* Kind change specification: two tenants record dated amounts in categories
   of kind expense, change categories to kind income, and ask for summaries *)

FlipExpenseInputs ==
    {NewExpense(Num(i), Num(100), Dec30) : i \in CatIds}
        \cup {NewExpense(Num(i), Num(250), Dec31) : i \in CatIds}

NextFlip ==
    \/ \E uid \in Users : createCategory(uid, CategoryData("Food", Absent))
    \/ \E uid \in Users, data \in FlipExpenseInputs : createTransaction(uid, data)
    \/ \E uid \in Users, cid \in CatIds : updateCategory(uid, cid, CategoryData(Absent, "income"))
    \/ \E uid \in Users : getSummary(uid, SummaryArgs("daily", Dec30, Dec31))
    \/ respond

SpecFlip == Init /\ [][NextFlip]_vars

\* the windows a summary is compared over: each day, both days, and the days
\* after them
FlipWindows ==
    {<<DayOfBound(Dec30), DayOfBound(Dec30)>>, <<DayOfBound(Dec31), DayOfBound(Dec31)>>,
     <<DayOfBound(Dec30), DayOfBound(Dec31)>>, <<DayOfBound(Jan01), DayOfBound(Jan01)>>}

\* the sum of the amounts of the tenant's transactions dated in the window
\* that reference the category
ReferencingSum(uid, cid, w) ==
    SliceSum({e \in expenses :
                 /\ e.user_id = uid
                 /\ e.category_id = cid
                 /\ w[1] <= e.date /\ e.date <= w[2]})

\* C27: when updateCategory changes a category of the tenant from expense
\* to income, the summary of the tenant over any window has its expense
\* total lowered and its income total raised by the sum of the amounts of
\* the tenant's transactions in the window that reference the category, and
\* no transaction is rewritten
C27_KindReadAtAggregation ==
    [][\A c \in categories, uid \in Users :
          (/\ resp'.op = "updateCategory"
           /\ resp'.status = 200
           /\ resp'.uid = uid
           /\ resp'.req.id = c.id
           /\ c.type = "expense"
           /\ \E d \in categories' : d.id = c.id /\ d.type = "income")
          => /\ expenses' = expenses
             /\ \A w \in FlipWindows :
                    /\ SummaryTotal(uid, "expense", w[1], w[2])'
                           = SummaryTotal(uid, "expense", w[1], w[2])
                                 - ReferencingSum(uid, c.id, w)
                    /\ SummaryTotal(uid, "income", w[1], w[2])'
                           = SummaryTotal(uid, "income", w[1], w[2])
                                 + ReferencingSum(uid, c.id, w)]_vars

\* a category that two transactions of its tenant reference has been changed
\* to income, while the tenant has no other category
C27_Witness ==
    /\ resp.op = "updateCategory"
    /\ resp.status = 200
    /\ \E c \in categories :
           /\ c.id = resp.req.id
           /\ c.type = "income"
           /\ c.user_id = resp.uid
           /\ Cardinality({e \in expenses : e.user_id = resp.uid /\ e.category_id = c.id}) = 2
    /\ SummaryTotal(resp.uid, "income", DayOfBound(Dec30), DayOfBound(Dec31)) > 0

-----------------------------------------------------------------------------
(* POST /api/register.  The handler commits the User row and then calls
   create_default_categories, which opens a second write transaction; an
   upload served by another worker may take the write lock between the two *)

\* the list `defaults` of create_default_categories, the Thai names spelled
\* in Latin letters: 27 expense categories followed by 4 income categories
DefaultNames ==
    <<"dok rak", "mali", "dao rueang", "kulap mon", "bai si", "champi", "mak",
      "buri", "oi", "mam yai", "man lek", "kulap yai", "kluai", "caspia",
      "carnation", "bua", "dao kam", "mai kam", "pipo", "dido", "tua dut",
      "jelly", "phonlamai", "thong ruam", "nam daeng", "nam op", "uen",
      "khai dokmai", "khai sinkha", "ngoen phiset", "ngoen kep">>

defaults ==
    [i \in DOMAIN DefaultNames |->
        [name |-> DefaultNames[i], type |-> IF i <= 27 THEN "expense" ELSE "income"]]

\* the loop of create_default_categories: a default whose name the tenant
\* does not have yet is added, and the rows take the next rowids in order
RECURSIVE AddDefaults(_, _, _)
AddDefaults(cats, user_id, table) ==
    IF cats = <<>> THEN table
    ELSE LET cat == Head(cats)
             present == \E c \in table : c.user_id = user_id /\ c.name = cat.name
         IN  AddDefaults(Tail(cats), user_id,
                         IF present THEN table
                         ELSE table \cup {Category(NextId(table), user_id, cat.name, cat.type)})

\* no worker is in a write transaction
NoWriter == \A w \in Workers : inflight[w].flushed = {}

\* register up to the commit of the User row; the handler goes on to
\* create_default_categories and has no status yet
register(data) ==
    /\ Idle
    /\ LET missing == validate_required_fields(data, <<"username", "password", "email">>)
           user == User(NextId(users), data.username, data.email)
       IN  IF missing # ""
           THEN /\ resp' = Response("register", 0, data, 400, "Missing required field", NoBody)
                /\ UNCHANGED users
           ELSE IF \E u \in users : u.username = data.username
           THEN /\ resp' = Response("register", 0, data, 400, "Username already exists", NoBody)
                /\ UNCHANGED users
           ELSE IF \E u \in users : u.email = data.email
           THEN /\ resp' = Response("register", 0, data, 400, "Email already exists", NoBody)
                /\ UNCHANGED users
           ELSE /\ NoWriter
                /\ users' = users \cup {user}
                /\ resp' = Response("register", user.id, data, 0, "", NoBody)
    /\ UNCHANGED <<categories, expenses, clock, inflight>>

\* the INSERT of the User row waits for the write lock; when the wait times
\* out it raises "database is locked", which `except Exception` answers
registerLocked(data) ==
    /\ Idle
    /\ validate_required_fields(data, <<"username", "password", "email">>) = ""
    /\ \A u \in users : u.username # data.username /\ u.email # data.email
    /\ ~NoWriter
    /\ resp' = Response("register", 0, data, 500, "Internal server error", NoBody)
    /\ UNCHANGED <<categories, expenses, clock, inflight, users>>

\* create_default_categories succeeds and register returns
create_default_categories ==
    /\ resp.op = "register"
    /\ resp.status = 0
    /\ NoWriter
    /\ categories' = AddDefaults(defaults, resp.uid, categories)
    /\ resp' = [resp EXCEPT !.status = 201, !.msg = "Registered successfully"]
    /\ UNCHANGED <<expenses, clock, inflight, users>>

\* the first INSERT of create_default_categories times out waiting for the
\* write lock: its `except Exception` rolls back and logs, nothing is raised
\* to register, which returns as after a success
defaultsLocked ==
    /\ resp.op = "register"
    /\ resp.status = 0
    /\ ~NoWriter
    /\ resp' = [resp EXCEPT !.status = 201, !.msg = "Registered successfully"]
    /\ UNCHANGED <<categories, expenses, clock, inflight, users>>

-----------------------------------------------------------------------------
(* Registration specification: registrations while worker 1 serves one
   upload of tenant 1 *)

RegisterInputs ==
    {RegisterData("cat", "pw", "cat@x"),
     RegisterData("ann", "pw", "cat@x"),
     RegisterData("dan", "pw", "bob@x"),
     RegisterData("dan", Absent, "dan@x")}

RegisterFile ==
    File("csv", <<CsvRow("Food", Absent, Num(100), Dec31),
                  CsvRow("Pay", "income", Num(250), Jan01)>>)

NextReg ==
    \/ \E data \in RegisterInputs : register(data)
    \/ \E data \in RegisterInputs : registerLocked(data)
    \/ create_default_categories
    \/ defaultsLocked
    \/ respond
    \/ importArrives(1, 1, RegisterFile)
    \/ importRow(1)
    \/ importCreate(1)
    \/ importAdd(1)
    \/ importCommit(1)

SpecReg == Init /\ [][NextReg]_vars

\* C28: whenever registration of a tenant reports success, the categories of
\* that tenant are exactly the default set: every default name once, with
\* its kind, and nothing else
C28_RegisteredHasDefaults ==
    (resp.op = "register" /\ resp.status = 201)
    => LET mine == {c \in categories : c.user_id = resp.uid}
       IN  /\ {<<c.name, c.type>> : c \in mine}
                  = {<<defaults[i].name, defaults[i].type>> : i \in DOMAIN defaults}
           /\ Cardinality(mine) = Len(defaults)

-----------------------------------------------------------------------------
(* Batch specification: tenant 1 uploads files of up to MaxRows + 1 rows, of
   which some miss the amount or carry a date that is no calendar date *)

BatchRows ==
    {CsvRow("Food", Absent, Num(100), Dec31),
     CsvRow("Pay", "income", Num(250), Jan01),
     CsvRow("Food", Absent, Num(70), Feb30),
     CsvRow("Pay", Absent, NoneV, Dec30)}
BatchFiles == {File("csv", rows) : rows \in SeqsUpTo(BatchRows, MaxRows + 1) \ {<<>>}}

NextBatch ==
    \/ \E file \in BatchFiles : ImportWithin(1, file, MaxCatId, MaxExpId + 1)
    \/ respond

SpecBatch == Init /\ [][NextBatch]_vars

\* a row that the validation of the loop rejects
BadRow(row) ==
    \/ row.category \in {Absent, None}
    \/ row.amount \in {AbsentV, NoneV}
    \/ ~IsDay(row.date)

\* the row at which the upload stops
FirstBad(rows) ==
    CHOOSE k \in DOMAIN rows : BadRow(rows[k]) /\ \A i \in 1 .. k - 1 : ~BadRow(rows[i])

\* the rows before row k whose category the tenant had not when they were read
Creating(rows, k, names) ==
    {i \in 1 .. k - 1 : /\ rows[i].category \notin names
                        /\ \A h \in 1 .. i - 1 : rows[h].category # rows[i].category}

\* row j, the last row before row k that created a category; 1 when none did
LastCreating(rows, k, names) ==
    LET creating == Creating(rows, k, names)
    IN  IF creating = {} THEN 1 ELSE Max(creating)

\* C29: when an upload stops at row k on a validation error, the categories
\* it leaves are those created by the rows before k, and the transactions it
\* leaves are those of rows 1 .. j-1, where row j is the last row before k
\* that created a category; the transactions of rows j .. k-1 are discarded
C29_PartialImport ==
    [][(resp'.op = "importRows" /\ resp'.status = 400)
       => LET rows == resp'.req.rows
              k == FirstBad(rows)
              names == {c.name : c \in {c \in categories : c.user_id = resp'.uid}}
              j == LastCreating(rows, k, names)
              added == expenses' \ expenses
              NameOf(e) == (CHOOSE c \in categories' : c.id = e.category_id).name
          IN  /\ \E i \in DOMAIN rows : BadRow(rows[i])
              /\ categories \subseteq categories'
              /\ {<<c.user_id, c.name, c.type>> : c \in categories' \ categories}
                     = {<<resp'.uid, rows[i].category, GetOr(rows[i], "type", "expense")>> :
                            i \in Creating(rows, k, names)}
              /\ Cardinality(categories' \ categories) = Cardinality(Creating(rows, k, names))
              /\ expenses \subseteq expenses'
              /\ Cardinality(added) = j - 1
              /\ {<<e.user_id, NameOf(e), e.amount, e.date>> : e \in added}
                     = {<<resp'.uid, rows[i].category, rows[i].amount.v, DayOfBound(rows[i].date)>> :
                            i \in 1 .. j - 1}]_vars

\* an upload of three rows: the first two each create a category, the third
\* has a date that is no calendar date; the transaction of the first row
\* alone is left
C29_Witness ==
    /\ resp.op = "importRows"
    /\ resp.status = 400
    /\ Len(resp.req.rows) = 3
    /\ resp.req.rows[1].category = "Food"
    /\ resp.req.rows[2].category = "Pay"
    /\ resp.req.rows[3].date = Feb30
    /\ Cardinality(categories) = 2
    /\ Cardinality(expenses) = 1
    /\ \A e \in expenses : e.amount = 100

-----------------------------------------------------------------------------
(* Single bound specification: tenant 1 fills its ledger and summaries are
   asked with one bound, with none and with both *)

OneBoundRanges ==
    {<<Dec30, AbsentV>>, <<Jan01, AbsentV>>, <<AbsentV, Dec30>>,
     <<Feb30, AbsentV>>, <<AbsentV, Raw("abc")>>,
     <<AbsentV, AbsentV>>, <<Dec30, Dec31>>}
OneBoundArgs ==
    {SummaryArgs(period, r[1], r[2]) :
        period \in {Absent, "daily", "monthly", "hourly"}, r \in OneBoundRanges}

NextOneBound ==
    \/ \E data \in SumCategoryInputs : createCategory(1, data)
    \/ \E data \in SumExpenseInputs : createTransaction(1, data)
    \/ \E args \in OneBoundArgs : getSummary(1, args)
    \/ respond

SpecOneBound == Init /\ [][NextOneBound]_vars

\* the summary was asked with exactly one of from and to
HasOneBound ==
    /\ resp.op = "getSummary"
    /\ (resp.req.args.from = AbsentV) # (resp.req.args.to = AbsentV)

\* C30: a summary asked with exactly one of from and to is answered as one
\* asked with neither: no error is reported for the bound, even when it is
\* no date, and the window, from_date, to_date and the totals are those of
\* the default window of the period around today
C30_SingleBoundIgnored ==
    HasOneBound =>
        LET args == resp.req.args
            today == resp.req.today
            period == IF args.period = Absent THEN "weekly" ELSE args.period
            neither == SummaryResponse(resp.uid, SummaryArgs(args.period, AbsentV, AbsentV), today)
            window == DefaultWindow(period, today)
        IN  /\ resp.status = neither.status
            /\ resp.msg = neither.msg
            /\ resp.body = neither.body
            /\ resp.msg # "Invalid date format"
            /\ period \in Periods =>
                   /\ resp.status = 200
                   /\ resp.body.from_date = IsoFormat(window[1])
                   /\ resp.body.to_date = IsoFormat(window[2])
                   /\ resp.body.total_income = LedgerTotal(resp.uid, "income", window[1], window[2])
                   /\ resp.body.total_expense = LedgerTotal(resp.uid, "expense", window[1], window[2])

\* a daily summary asked with from alone, a day after today, has been
\* answered with today's transaction in its total
C30_Witness ==
    /\ HasOneBound
    /\ resp.req.args.period = "daily"
    /\ resp.req.args.from = Jan01
    /\ resp.status = 200
    /\ resp.body.from_date = Dec31
    /\ resp.body.total_income + resp.body.total_expense > 0

====
